---- MODULE Spec2Model ----
(***************************************************************************)
(* Model of electrolux2mqtt: the Electrolux API client                     *)
(* (src/src/services/electrolux.ts): session tokens, their renewal and     *)
(* persistence in config/state.json, and the fetchData() fan-out over the  *)
(* appliance inventory.                                                    *)
(*                                                                         *)
(* JavaScript runs every piece of code between two awaits on network I/O   *)
(* as one atomic step, so each action below is one such piece: the code    *)
(* that runs when a task is started, or when the response of the request   *)
(* it awaits arrives, up to the next request it sends.                     *)
(***************************************************************************)
EXTENDS Integers, Sequences, FiniteSets, TLC

----------------------------------------------------------------------------
(* Bounds of the model *)

MaxDevices == 2      \* largest inventory the remote API lists
MaxTicks == 1        \* clock advances per behaviour
MaxIssue == 2        \* token pairs the remote API issues per behaviour
MaxBoots == 2        \* process starts per behaviour
MaxCycles == 2       \* polling cycles per process
MaxIdLen == 3        \* longest appliance id handed to sanitizeId()
MaxKeys == 3         \* most keys in the reported state of an appliance
MaxCalls == 2        \* processApplianceData() calls per process
MaxPollTicks == 3    \* firings of the interval timer
MaxPollCalls == 3    \* start() and stop() calls

----------------------------------------------------------------------------
(* Program constants and value domains *)

MarginMs == 120000                  \* authenticate(): tokenExpiry - 120000
TickMs == MarginMs                  \* granularity of the modelled clock
Now0 == 10 * TickMs                 \* Date.now() at the start (positive)

Null == 0                           \* null / undefined / absent JSON key
ConfigToken == 1                    \* ELECTROLUX_REFRESH_TOKEN of the environment
RotatedToken == 2                   \* a refresh token issued by an earlier run
ExpiresInSet == {120, 240}          \* expiresIn (seconds) of a token response

Tasks == 0 .. MaxDevices            \* 0: getAppliances(); i: the i-th appliance
Devs == 1 .. MaxDevices

NoResp == [kind |-> "none", tok |-> Null, expiresIn |-> 0]
\* a request that gets no answer: its fetch() promise stays pending
Unanswered == [kind |-> "never", tok |-> Null, expiresIn |-> 0]
NoEntry == [kind |-> "none", applianceId |-> Null, name |-> Null,
            error |-> "", origin |-> "", connected |-> FALSE]
NoResult == [status |-> "none", entries |-> <<>>, error |-> "", origin |-> ""]
NoSent == [refresh |-> 0, inv |-> 0, info |-> 0, state |-> 0]
NoPublish == [summary |-> FALSE, devices |-> 0, topics |-> <<>>]

VARIABLES
  clientState,   \* "down" | "up" | "exited" (process.exit(1) at startup)
  config,        \* [apiKey, refreshToken, mqttHost] of the environment
  accessToken,   \* this.accessToken
  refreshToken,  \* this.refreshToken
  tokenExpiry,   \* this.tokenExpiry (epoch ms)
  appliances,    \* this.appliances
  file,          \* config/state.json
  diskOk,        \* the volume of config/state.json accepts writes
  now,           \* Date.now()
  ticks,         \* clock advances so far
  srvValid,      \* the one refresh token the remote API accepts
  issued,        \* token pairs the remote API has issued
  pc,            \* per task: position in fetchData()
  phase,         \* per task: the request it is about: "inv" | "info" | "state"
  sentTok,       \* per task: refresh token in the body of its refresh request
  resp,          \* per task: response of its refresh request, once produced
  entries,       \* per appliance: the value its mapped promise resolved to
  result,        \* outcome of the last fetchData()
  published,     \* what the polling cycle published for the last fetchData()
  boots,         \* process starts so far
  cycles,        \* polling cycles of this process so far
  sent,          \* history: requests sent during the current cycle
  issuedRun,     \* history: refresh token last issued to this process
  bootToken,     \* history: refresh token held right after construction
  writeFailed,   \* history: a write of state.json has failed in this process
  \* sanitizeId() on its own
  sanId,         \* the id handed to sanitizeId()
  sanTopic,      \* sanitizeId(id): the topic-safe form
  sanUnique,     \* sanitizeId(id, true): the unique-id form
  sanDone,       \* both forms have been computed
  \* createSensors() on its own
  senRec,        \* the appliance record handed to createSensors()
  senDocs,       \* the discovery documents it publishes, in order
  senDone,       \* createSensors() has run
  \* the Home Assistant service (src/src/services/homeAssistant.ts)
  haState,             \* "down" | "up" | "stopped": the process and its service
  haConfig,            \* this.config
  deviceRegistrations, \* this.deviceRegistrations: the sanitized ids in it
  calls,               \* per processApplianceData() call: where it stands
  started,             \* processApplianceData() calls of this process so far
  statusPubs,          \* what this process published on status topics
  bridgeDocs,          \* discovery documents of the bridge published
  bridgeDevices,       \* devices of the bridge state published last
  busOk,               \* the bus takes the publishes of this process
  overlapped,          \* history: two calls of this process were in flight
  exitLog,             \* history: how the process stood when it exited
  \* the polling orchestrator (src/utils/polling.ts)
  poll                 \* its timer, its cycles in flight and its counters

clientVars == <<clientState, config, accessToken, refreshToken, tokenExpiry,
                appliances, file, diskOk, now, ticks, srvValid, issued, pc,
                phase, sentTok, resp, entries, result, published, boots,
                cycles, sent, issuedRun, bootToken, writeFailed>>

sanVars == <<sanId, sanTopic, sanUnique, sanDone>>

senVars == <<senRec, senDocs, senDone>>

haVars == <<haState, haConfig, deviceRegistrations, calls, started,
           statusPubs, bridgeDocs, bridgeDevices, busOk, overlapped, exitLog>>

\* what the API client never touches
aside == <<sanVars, senVars, haVars, poll>>

vars == <<clientVars, aside>>

\* the orchestrator before start(): Stopped, no timer, no cycle
PollIdle == [running |-> FALSE, fetching |-> 0, publishing |-> 0,
             ticks |-> 0, calls |-> 0, started |-> 0, skipped |-> 0]

\* the polling orchestrator is not being looked at
PollParked == poll = PollIdle

\* sanitizeId() is not being looked at
SanParked ==
  /\ sanId = <<>>
  /\ sanTopic = <<>>
  /\ sanUnique = <<>>
  /\ sanDone = FALSE

\* no appliance record
NoRecord == [kind |-> "none", applianceId |-> "", name |-> "",
             deviceType |-> "", modelName |-> "", connected |-> FALSE,
             state |-> <<>>]

\* createSensors() is not being looked at
SenParked ==
  /\ senRec = NoRecord
  /\ senDocs = <<>>
  /\ senDone = FALSE

session == <<accessToken, refreshToken, tokenExpiry>>
server == <<srvValid, issued>>
clock == <<now, ticks>>
tasks == <<pc, phase, sentTok, resp, entries>>

----------------------------------------------------------------------------
(* The remote API's data *)

Appliance(i) == [applianceId |-> i, applianceName |-> 10 + i,
                 applianceType |-> "OV"]

Inventory(n) == [i \in 1 .. n |-> Appliance(i)]

Inventories == {Inventory(n) : n \in 0 .. MaxDevices}

----------------------------------------------------------------------------
(* config/state.json *)

AbsentFile == [state |-> "absent", refreshToken |-> Null, accessToken |-> Null,
               tokenExpiry |-> 0, appliances |-> <<>>]

CorruptFile == [AbsentFile EXCEPT !.state = "corrupt"]

\* variant: the expiry is left out of the document
StateData_NoExpiry(rt, at, exp, apps) ==
  [state |-> "ok",
   refreshToken |-> IF rt # Null THEN rt ELSE Null,
   accessToken |-> IF at # Null THEN at ELSE Null,
   tokenExpiry |-> 0,
   appliances |-> IF Len(apps) > 0
                  THEN [i \in 1 .. Len(apps) |->
                          [applianceId |-> apps[i].applianceId,
                           applianceName |-> apps[i].applianceName]]
                  ELSE <<>>]

\* saveDataToFile(): the JSON document written for an in-memory state
StateData(rt, at, exp, apps) ==
  [state |-> "ok",
   refreshToken |-> IF rt # Null THEN rt ELSE Null,
   accessToken |-> IF at # Null THEN at ELSE Null,
   tokenExpiry |-> IF at # Null THEN exp ELSE 0,
   appliances |-> IF Len(apps) > 0
                  THEN [i \in 1 .. Len(apps) |->
                          [applianceId |-> apps[i].applianceId,
                           applianceName |-> apps[i].applianceName]]
                  ELSE <<>>]

SaveDataToFile_TruncatesOnFailure(old, rt, at, exp, apps, ok) ==
  IF ok THEN StateData(rt, at, exp, apps) ELSE CorruptFile

\* saveDataToFile(): the file after the call; a failed write is caught
SaveDataToFile(old, rt, at, exp, apps, ok) ==
  IF ok THEN StateData(rt, at, exp, apps) ELSE old

FreshMem == [refreshToken |-> Null, accessToken |-> Null, tokenExpiry |-> 0,
             appliances |-> <<>>]

\* variant: the stored inventory is not restored
LoadDataFromFile_NoAppliances(f, mem) ==
  IF f.state # "ok"
  THEN mem
  ELSE [refreshToken |-> IF f.refreshToken # Null THEN f.refreshToken
                         ELSE mem.refreshToken,
        accessToken |-> IF f.accessToken # Null /\ f.tokenExpiry # 0
                        THEN f.accessToken ELSE mem.accessToken,
        tokenExpiry |-> IF f.accessToken # Null /\ f.tokenExpiry # 0
                        THEN f.tokenExpiry ELSE mem.tokenExpiry,
        appliances |-> mem.appliances]

\* loadDataFromFile(): the in-memory state after the call
LoadDataFromFile(f, mem) ==
  IF f.state # "ok"
  THEN mem
  ELSE [refreshToken |-> IF f.refreshToken # Null THEN f.refreshToken
                         ELSE mem.refreshToken,
        accessToken |-> IF f.accessToken # Null /\ f.tokenExpiry # 0
                        THEN f.accessToken ELSE mem.accessToken,
        tokenExpiry |-> IF f.accessToken # Null /\ f.tokenExpiry # 0
                        THEN f.tokenExpiry ELSE mem.tokenExpiry,
        appliances |-> IF Len(f.appliances) > 0
                       THEN [i \in 1 .. Len(f.appliances) |->
                               [applianceId |-> f.appliances[i].applianceId,
                                applianceName |-> f.appliances[i].applianceName,
                                applianceType |-> Null]]
                       ELSE mem.appliances]

\* variant: the configured refresh token wins over the persisted one
Constructor_ConfigFirst(cfg, f, ok) ==
  LET loaded == LoadDataFromFile(f, FreshMem)
      mem == IF cfg.refreshToken # Null
             THEN [loaded EXCEPT !.refreshToken = cfg.refreshToken]
             ELSE loaded
  IN [mem |-> mem,
      file |-> IF cfg.refreshToken # Null
               THEN SaveDataToFile(f, mem.refreshToken, mem.accessToken,
                                   mem.tokenExpiry, mem.appliances, ok)
               ELSE f,
      wrote |-> cfg.refreshToken # Null,
      threw |-> ~cfg.apiKey
                \/ (cfg.refreshToken = Null /\ mem.refreshToken = Null)]

\* new ElectroluxApiClient(config): fields, file and whether it threw
Constructor(cfg, f, ok) ==
  LET first == f.state = "absent" /\ cfg.refreshToken # Null
      loaded == LoadDataFromFile(f, FreshMem)
      fallback == ~first /\ loaded.refreshToken = Null /\ cfg.refreshToken # Null
      mem == IF first \/ fallback
             THEN [(IF first THEN FreshMem ELSE loaded)
                     EXCEPT !.refreshToken = cfg.refreshToken]
             ELSE loaded
  IN [mem |-> mem,
      file |-> IF first \/ fallback
               THEN SaveDataToFile(f, mem.refreshToken, mem.accessToken,
                                   mem.tokenExpiry, mem.appliances, ok)
               ELSE f,
      wrote |-> first \/ fallback,
      threw |-> ~cfg.apiKey
                \/ (cfg.refreshToken = Null /\ mem.refreshToken = Null)]

\* (id, name) pairs of an inventory
Pairs(apps) == [i \in 1 .. Len(apps) |-> <<apps[i].applianceId, apps[i].applianceName>>]

----------------------------------------------------------------------------
(* Initial state: the process is about to start *)

InitFiles ==
  {AbsentFile, CorruptFile, StateData(Null, Null, 0, <<>>)}
  \cup {StateData(rt, Null, 0, <<>>) : rt \in {ConfigToken, RotatedToken}}
  \cup {StateData(rt, rt, Now0 + 2 * MarginMs, Inventory(1)) :
          rt \in {RotatedToken}}

\* the process has not exited on a signal
NoExit == [exited |-> FALSE, offline |-> "none", inFlight |-> FALSE]

IdleCall == [pc |-> "idle", input |-> <<>>, i |-> 0, phase |-> "", k |-> 0,
             out |-> <<>>]

\* the Home Assistant service is not running
HaParked ==
  /\ haState = "down"
  /\ haConfig = [discoveryPrefix |-> "", nodeId |-> "", statusTopic |-> "",
                 enabled |-> FALSE]
  /\ deviceRegistrations = {}
  /\ calls = <<>>
  /\ started = 0
  /\ statusPubs = {}
  /\ bridgeDocs = <<>>
  /\ bridgeDevices = 0
  /\ busOk = TRUE
  /\ overlapped = FALSE
  /\ exitLog = NoExit

Init ==
  /\ clientState = "down"
  /\ config \in [apiKey : BOOLEAN, refreshToken : {Null, ConfigToken},
                 mqttHost : BOOLEAN]
  /\ accessToken = Null
  /\ refreshToken = Null
  /\ tokenExpiry = 0
  /\ appliances = <<>>
  /\ file \in InitFiles
  /\ diskOk \in BOOLEAN
  /\ now = Now0
  /\ ticks = 0
  /\ srvValid \in {ConfigToken, RotatedToken}
  /\ issued = 0
  /\ pc = [t \in Tasks |-> "idle"]
  /\ phase = [t \in Tasks |-> "inv"]
  /\ sentTok = [t \in Tasks |-> Null]
  /\ resp = [t \in Tasks |-> NoResp]
  /\ entries = [d \in Devs |-> NoEntry]
  /\ result = NoResult
  /\ published = NoPublish
  /\ boots = 0
  /\ cycles = 0
  /\ sent = NoSent
  /\ issuedRun = Null
  /\ bootToken = Null
  /\ writeFailed = FALSE
  /\ SanParked
  /\ SenParked
  /\ HaParked
  /\ PollParked

----------------------------------------------------------------------------
(* authenticate() and refreshAccessToken() *)

\* variant: the check without the safety margin
TokenValid_NoMargin(at, exp, t) == at # Null /\ t < exp

\* authenticate(): the check for an existing valid token
TokenValid(at, exp, t) == at # Null /\ t < exp - MarginMs

AuthKind_AlwaysRefresh(at, rt, exp, t) ==
  IF rt = Null THEN "norefresh" ELSE "refresh"

\* authenticate() up to its first await: return, throw, or send a refresh
AuthKind(at, rt, exp, t) ==
  IF TokenValid(at, exp, t) THEN "valid"
  ELSE IF rt = Null THEN "norefresh"
  ELSE "refresh"

\* variant: the caller goes on to its request when authenticate() throws
NextPc_IgnoresAuthError(k, t) ==
  IF k = "refresh" THEN "refreshWait" ELSE "reqWait"

\* where a task stands once `await this.authenticate()` is under way:
\* its request is sent, a refresh request is sent, or the error propagates
NextPc(k, t) ==
  IF k = "valid" THEN "reqWait"
  ELSE IF k = "refresh" THEN "refreshWait"
  ELSE IF t = 0 THEN "returned" ELSE "done"

\* variant: the rotated refresh token of the response is not taken over
TokensAfterRefresh_KeepsRefreshToken(oldRt, r, t) ==
  [accessToken |-> r.tok, refreshToken |-> oldRt,
   tokenExpiry |-> t + r.expiresIn * 1000]

\* refreshAccessToken(), "Update tokens"
TokensAfterRefresh(oldRt, r, t) ==
  [accessToken |-> r.tok, refreshToken |-> r.tok,
   tokenExpiry |-> t + r.expiresIn * 1000]

\* variant: a failed renewal keeps the refresh token for a later retry
TokensAfterFailure_KeepsRefreshToken(oldRt) ==
  [accessToken |-> Null, refreshToken |-> oldRt, tokenExpiry |-> 0]

\* refreshAccessToken(), catch block
TokensAfterFailure(oldRt) ==
  [accessToken |-> Null, refreshToken |-> Null, tokenExpiry |-> 0]

FileAfterFailure_Saved(f, s, apps, ok) ==
  SaveDataToFile(f, s.refreshToken, s.accessToken, s.tokenExpiry, apps, ok)

\* refreshAccessToken(), catch block: the fields are cleared, saveDataToFile()
\* is not called
FileAfterFailure(f, s, apps, ok) == f

\* the message of the error a failed request throws
ErrorMessage(ph, kind) ==
  IF kind = "neterr" THEN "fetch failed"
  ELSE IF kind = "badjson" THEN "Unexpected token in JSON"
  ELSE IF ph = "refresh" THEN "Token refresh failed"
  ELSE IF ph = "inv" THEN "Failed to fetch appliances"
  ELSE IF ph = "info" THEN "Failed to fetch appliance information"
  ELSE "Failed to fetch appliance state"

NoRefreshMessage == "No refresh token available"

\* the ways an inventory, info or state request is made to fail here
RequestFailureKinds == {"nonok"}

----------------------------------------------------------------------------
(* fetchData(): entries and results *)

\* fetchData(), catch of the mapped task; origin is history: the call whose
\* error was caught ("auth", "refresh", "info" or "state")
ErrorEntry(a, origin, msg) ==
  [kind |-> "error", applianceId |-> a.applianceId, name |-> a.applianceName,
   error |-> msg, origin |-> origin, connected |-> FALSE]

\* processApplianceData()
RecordEntry(a, conn) ==
  [kind |-> "ok", applianceId |-> a.applianceId, name |-> a.applianceName,
   error |-> "", origin |-> "", connected |-> conn]

\* the single entry fetchData() returns for an empty inventory
MessageEntry ==
  [kind |-> "message", applianceId |-> Null, name |-> Null,
   error |-> "", origin |-> "", connected |-> FALSE]

\* fetchData(), appliances.length === 0
EmptyInventoryResult == <<MessageEntry>>

\* fetchData() throws; origin is history: the call whose error propagated
Thrown(origin, msg) ==
  [status |-> "error", entries |-> <<>>, error |-> msg, origin |-> origin]

Returned(es) == [status |-> "list", entries |-> es, error |-> "", origin |-> ""]

\* history: the requests sent by the tasks in S that move to np(t) for ph
Count(S) == Cardinality(S)

SentAfter(s, S, np, ph) ==
  LET r == Count({t \in S : np[t] = "refreshWait"})
      q == Count({t \in S : np[t] = "reqWait"})
  IN [refresh |-> s.refresh + r,
      inv |-> s.inv + (IF ph = "inv" THEN q ELSE 0),
      info |-> s.info + (IF ph = "info" THEN q ELSE 0),
      state |-> s.state + (IF ph = "state" THEN q ELSE 0)]

----------------------------------------------------------------------------
(* Process start: createElectroluxApiClientFromEnv() and the constructor *)

\* setupMqttConnection(): createMqttConnectorFromEnv() and connect() get
\* through when the broker's host is configured
MqttConfigured(cfg) == cfg.mqttHost

EnvComplete_KeyOnly(cfg) == cfg.apiKey

\* createElectroluxApiClientFromEnv(): ELECTROLUX_API_KEY and
\* ELECTROLUX_REFRESH_TOKEN are both set
EnvComplete(cfg) == cfg.apiKey /\ cfg.refreshToken # Null

\* startService() up to the client: a throw of setupMqttConnection() or of
\* createElectroluxApiClientFromEnv() ends in process.exit(1)
Construct ==
  /\ clientState = "down"
  /\ boots < MaxBoots
  /\ boots' = boots + 1
  /\ IF ~MqttConfigured(config) \/ ~EnvComplete(config)
     THEN /\ clientState' = "exited"
          /\ UNCHANGED <<session, appliances, file, diskOk, bootToken, writeFailed>>
     ELSE LET ok == diskOk
              c == Constructor(config, file, ok)
          IN  /\ clientState' = IF c.threw THEN "exited" ELSE "up"
              /\ accessToken' = c.mem.accessToken
              /\ refreshToken' = c.mem.refreshToken
              /\ tokenExpiry' = c.mem.tokenExpiry
              /\ appliances' = c.mem.appliances
              /\ file' = c.file
              /\ bootToken' = c.mem.refreshToken
              /\ writeFailed' = (c.wrote /\ ~ok)
  /\ UNCHANGED <<config, aside, diskOk, clock, server, tasks, result, published,
                 cycles, sent, issuedRun>>

\* the process is stopped or killed and started again by its supervisor
Restart ==
  /\ clientState = "up"
  /\ boots < MaxBoots
  /\ clientState' = "down"
  /\ accessToken' = Null
  /\ refreshToken' = Null
  /\ tokenExpiry' = 0
  /\ appliances' = <<>>
  /\ pc' = [t \in Tasks |-> "idle"]
  /\ phase' = [t \in Tasks |-> "inv"]
  /\ sentTok' = [t \in Tasks |-> Null]
  /\ resp' = [t \in Tasks |-> NoResp]
  /\ entries' = [d \in Devs |-> NoEntry]
  /\ result' = NoResult
  /\ published' = NoPublish
  /\ cycles' = 0
  /\ sent' = NoSent
  /\ issuedRun' = Null
  /\ bootToken' = Null
  /\ writeFailed' = FALSE
  /\ UNCHANGED <<config, aside, file, diskOk, clock, server, boots>>

Tick ==
  /\ ticks < MaxTicks
  /\ ticks' = ticks + 1
  /\ now' = now + TickMs
  /\ UNCHANGED <<clientState, config, aside, session, appliances, file, diskOk, server,
                 tasks, result, published, boots, cycles, sent, issuedRun,
                 bootToken, writeFailed>>

----------------------------------------------------------------------------
(* The remote API's token endpoint: refresh tokens are single-use *)

ServerRefresh(t) ==
  /\ pc[t] = "refreshWait"
  /\ resp[t] = NoResp
  /\ sentTok[t] = srvValid
  /\ issued < MaxIssue
  /\ issued' = issued + 1
  /\ srvValid' = RotatedToken + issued + 1
  /\ issuedRun' = srvValid'
  /\ \E r \in {[kind |-> "ok", tok |-> srvValid', expiresIn |-> e] :
                 e \in ExpiresInSet}
              \cup {[kind |-> "badjson", tok |-> Null, expiresIn |-> 0]} :
       resp' = [resp EXCEPT ![t] = r]
  /\ UNCHANGED <<clientState, config, aside, session, appliances, file, diskOk, clock, pc,
                 phase, sentTok, entries, result, published, boots, cycles,
                 sent, bootToken, writeFailed>>

----------------------------------------------------------------------------
(* fetchData() *)

\* a polling cycle starts: fetchData() -> getAppliances() -> authenticate()
StartCycle ==
  /\ clientState = "up"
  /\ pc[0] = "idle"
  /\ cycles < MaxCycles
  /\ cycles' = cycles + 1
  /\ LET k == AuthKind(accessToken, refreshToken, tokenExpiry, now)
         np == [t \in {0} |-> NextPc(k, 0)]
     IN /\ pc' = [pc EXCEPT ![0] = np[0]]
        /\ phase' = [phase EXCEPT ![0] = "inv"]
        /\ sentTok' = [sentTok EXCEPT ![0] =
                         IF np[0] = "refreshWait" THEN refreshToken ELSE Null]
        /\ result' = IF k = "norefresh" THEN Thrown("auth", NoRefreshMessage)
                     ELSE NoResult
        /\ sent' = SentAfter(NoSent, {0}, np, "inv")
  /\ entries' = [d \in Devs |-> NoEntry]
  /\ published' = NoPublish
  /\ UNCHANGED <<clientState, config, aside, session, appliances, file, diskOk, clock,
                 server, resp, boots, issuedRun, bootToken, writeFailed>>

\* refreshAccessToken(): the token response is OK and parses
RefreshSucceeded(t) ==
  /\ pc[t] = "refreshWait"
  /\ resp[t].kind = "ok"
  /\ LET s == TokensAfterRefresh(refreshToken, resp[t], now) IN
       /\ accessToken' = s.accessToken
       /\ refreshToken' = s.refreshToken
       /\ tokenExpiry' = s.tokenExpiry
       /\ file' = SaveDataToFile(file, s.refreshToken, s.accessToken,
                                 s.tokenExpiry, appliances, diskOk)
       /\ writeFailed' = (writeFailed \/ ~diskOk)
  /\ pc' = [pc EXCEPT ![t] = "reqWait"]
  /\ resp' = [resp EXCEPT ![t] = NoResp]
  /\ sentTok' = [sentTok EXCEPT ![t] = Null]
  /\ sent' = SentAfter(sent, {t}, pc', phase[t])
  /\ UNCHANGED <<clientState, config, aside, appliances, diskOk, clock, server,
                 phase, entries, result, published, boots, cycles, issuedRun,
                 bootToken>>

\* refreshAccessToken(), catch block, and the error on its way to the caller
FailRefresh(t, kind) ==
  /\ LET s == TokensAfterFailure(refreshToken) IN
       /\ accessToken' = s.accessToken
       /\ refreshToken' = s.refreshToken
       /\ tokenExpiry' = s.tokenExpiry
       /\ file' = FileAfterFailure(file, s, appliances, diskOk)
  /\ pc' = [pc EXCEPT ![t] = NextPc("norefresh", t)]
  /\ resp' = [resp EXCEPT ![t] = NoResp]
  /\ sentTok' = [sentTok EXCEPT ![t] = Null]
  /\ sent' = SentAfter(sent, {t}, pc', phase[t])
  /\ IF t = 0
     THEN /\ result' = Thrown("refresh", ErrorMessage("refresh", kind))
          /\ UNCHANGED entries
     ELSE /\ entries' = [entries EXCEPT ![t] =
                           ErrorEntry(appliances[t], "refresh",
                                      ErrorMessage("refresh", kind))]
          /\ UNCHANGED result
  /\ UNCHANGED <<clientState, config, aside, appliances, diskOk, clock, server, phase,
                 published, boots, cycles, issuedRun, bootToken,
                 writeFailed>>

\* refreshAccessToken(): the remote API answers non-OK: the refresh token
\* sent is not, or no longer, the one it accepts
RefreshRejected(t) ==
  /\ pc[t] = "refreshWait"
  /\ resp[t] = NoResp
  /\ sentTok[t] # srvValid
  /\ FailRefresh(t, "nonok")

\* refreshAccessToken(): fetch() rejects, the request never reached the API
RefreshLost(t) ==
  /\ pc[t] = "refreshWait"
  /\ resp[t] = NoResp
  /\ FailRefresh(t, "neterr")

\* refreshAccessToken(): the response of an accepted renewal does not parse
RefreshUnparseable(t) ==
  /\ pc[t] = "refreshWait"
  /\ resp[t].kind = "badjson"
  /\ FailRefresh(t, "badjson")

\* getAppliances(): the inventory request fails
InventoryFailed ==
  /\ pc[0] = "reqWait"
  /\ resp[0] = NoResp
  /\ \E kind \in RequestFailureKinds :
       result' = Thrown("inv", ErrorMessage("inv", kind))
  /\ pc' = [pc EXCEPT ![0] = "returned"]
  /\ UNCHANGED <<clientState, config, aside, session, appliances, file, diskOk, clock,
                 server, phase, sentTok, resp, entries, published, boots,
                 cycles, sent, issuedRun, bootToken, writeFailed>>

\* getAppliances(): the inventory is listed; fetchData() then returns the
\* placeholder of an empty inventory or starts one task per appliance, each
\* running getApplianceInfo() -> authenticate() up to its first await
InventoryListed ==
  /\ pc[0] = "reqWait"
  /\ resp[0] = NoResp
  /\ \E inv \in Inventories :
       LET n == Len(inv)
           ok == diskOk
           k == AuthKind(accessToken, refreshToken, tokenExpiry, now)
           np == [d \in 1 .. n |-> NextPc(k, d)]
       IN /\ appliances' = inv
          /\ file' = SaveDataToFile(file, refreshToken, accessToken,
                                    tokenExpiry, inv, ok)
          /\ writeFailed' = (writeFailed \/ ~ok)
          /\ pc' = [t \in Tasks |->
                      IF t = 0 THEN (IF n = 0 THEN "returned" ELSE "awaitAll")
                      ELSE IF t <= n THEN np[t] ELSE pc[t]]
          /\ phase' = [t \in Tasks |->
                         IF t \in 1 .. n THEN "info" ELSE phase[t]]
          /\ sentTok' = [t \in Tasks |->
                           IF t \in 1 .. n /\ np[t] = "refreshWait"
                           THEN refreshToken ELSE sentTok[t]]
          /\ entries' = [d \in Devs |->
                           IF d <= n /\ k = "norefresh"
                           THEN ErrorEntry(inv[d], "auth", NoRefreshMessage)
                           ELSE NoEntry]
          /\ result' = IF n = 0 THEN Returned(EmptyInventoryResult)
                       ELSE result
          /\ sent' = SentAfter(sent, 1 .. n, np, "info")
  /\ UNCHANGED <<clientState, config, aside, session, diskOk, clock, server, resp,
                 published, boots, cycles, issuedRun, bootToken>>

\* getApplianceInfo() / getApplianceState(): the request of appliance d fails
DeviceRequestFailed(d) ==
  /\ d \in 1 .. Len(appliances)
  /\ pc[d] = "reqWait"
  /\ resp[d] = NoResp
  /\ \E kind \in RequestFailureKinds :
       entries' = [entries EXCEPT ![d] =
                     ErrorEntry(appliances[d], phase[d],
                                ErrorMessage(phase[d], kind))]
  /\ pc' = [pc EXCEPT ![d] = "done"]
  /\ UNCHANGED <<clientState, config, aside, session, appliances, file, diskOk, clock,
                 server, phase, sentTok, resp, result, published, boots,
                 cycles, sent, issuedRun, bootToken, writeFailed>>

\* getApplianceInfo() returns; getApplianceState() -> authenticate() runs up
\* to its first await
InfoFetched(d) ==
  /\ d \in 1 .. Len(appliances)
  /\ pc[d] = "reqWait"
  /\ resp[d] = NoResp
  /\ phase[d] = "info"
  /\ LET k == AuthKind(accessToken, refreshToken, tokenExpiry, now)
         np == [t \in {d} |-> NextPc(k, d)]
     IN /\ pc' = [pc EXCEPT ![d] = np[d]]
        /\ sentTok' = [sentTok EXCEPT ![d] =
                         IF np[d] = "refreshWait" THEN refreshToken ELSE Null]
        /\ entries' = [entries EXCEPT ![d] =
                         IF k = "norefresh"
                         THEN ErrorEntry(appliances[d], "auth", NoRefreshMessage)
                         ELSE @]
        /\ sent' = SentAfter(sent, {d}, np, "state")
  /\ phase' = [phase EXCEPT ![d] = "state"]
  /\ UNCHANGED <<clientState, config, aside, session, appliances, file, diskOk, clock,
                 server, resp, result, published, boots, cycles, issuedRun,
                 bootToken, writeFailed>>

\* getApplianceState() returns; processApplianceData() builds the record
StateFetched(d) ==
  /\ d \in 1 .. Len(appliances)
  /\ pc[d] = "reqWait"
  /\ resp[d] = NoResp
  /\ phase[d] = "state"
  /\ \E conn \in BOOLEAN :
       entries' = [entries EXCEPT ![d] = RecordEntry(appliances[d], conn)]
  /\ pc' = [pc EXCEPT ![d] = "done"]
  /\ UNCHANGED <<clientState, config, aside, session, appliances, file, diskOk, clock,
                 server, phase, sentTok, resp, result, published, boots,
                 cycles, sent, issuedRun, bootToken, writeFailed>>

\* Promise.all resolves: fetchData() returns the entries in inventory order
AllSettled ==
  /\ pc[0] = "awaitAll"
  /\ \A d \in 1 .. Len(appliances) : pc[d] = "done"
  /\ result' = Returned([i \in 1 .. Len(appliances) |-> entries[i]])
  /\ pc' = [t \in Tasks |-> IF t = 0 THEN "returned" ELSE "idle"]
  /\ phase' = [t \in Tasks |-> "inv"]
  /\ UNCHANGED <<clientState, config, aside, session, appliances, file, diskOk, clock,
                 server, sentTok, resp, entries, published, boots,
                 cycles, sent, issuedRun, bootToken, writeFailed>>

----------------------------------------------------------------------------
(* The polling cycle around fetchData() *)

\* what a cycle publishes for the outcome of fetchData(): one topic per
\* entry that has an appliance id and one aggregate summary; nothing when
\* fetchData() threw
CyclePublication(res) ==
  IF res.status = "list"
  THEN [summary |-> TRUE,
        devices |-> Len(res.entries),
        topics |-> SelectSeq([i \in 1 .. Len(res.entries) |->
                                res.entries[i].applianceId],
                             LAMBDA id : id # Null)]
  ELSE NoPublish

\* the cycle ends: it publishes, or logs the error; the service keeps running
FinishCycle ==
  /\ pc[0] = "returned"
  /\ published' = CyclePublication(result)
  /\ pc' = [pc EXCEPT ![0] = "idle"]
  /\ UNCHANGED <<clientState, config, aside, session, appliances, file, diskOk, clock,
                 server, phase, sentTok, resp, entries, result, boots, cycles,
                 sent, issuedRun, bootToken, writeFailed>>

----------------------------------------------------------------------------

Next ==
  \/ Construct
  \/ Restart
  \/ Tick
  \/ StartCycle
  \/ \E t \in Tasks : ServerRefresh(t)
  \/ \E t \in Tasks : RefreshLost(t)
  \/ \E t \in Tasks : RefreshSucceeded(t)
  \/ \E t \in Tasks : RefreshRejected(t)
  \/ \E t \in Tasks : RefreshUnparseable(t)
  \/ InventoryFailed
  \/ InventoryListed
  \/ \E d \in Devs : DeviceRequestFailed(d)
  \/ \E d \in Devs : InfoFetched(d)
  \/ \E d \in Devs : StateFetched(d)
  \/ AllSettled
  \/ FinishCycle

Spec == Init /\ [][Next]_vars

\* The remote API never answers the request task t waits for. fetch() is
\* called without a signal and no timer is armed, so the client has no step
\* for this case.
RequestUnanswered(t) ==
  /\ clientState = "up"
  /\ pc[t] \in {"refreshWait", "reqWait"}
  /\ resp[t] = NoResp
  /\ resp' = [resp EXCEPT ![t] = Unanswered]
  /\ UNCHANGED <<clientState, config, aside, session, appliances, file, diskOk, clock,
                 server, pc, phase, sentTok, entries, result, published, boots,
                 cycles, sent, issuedRun, bootToken, writeFailed>>

NextUnanswered ==
  \/ Next
  \/ \E t \in Tasks : RequestUnanswered(t)

\* the client against a remote API that may leave requests unanswered
SpecUnanswered == Init /\ [][NextUnanswered]_vars

TypeOK ==
  /\ clientState \in {"down", "up", "exited"}
  /\ accessToken \in Nat /\ refreshToken \in Nat /\ tokenExpiry \in Nat
  /\ diskOk \in BOOLEAN /\ writeFailed \in BOOLEAN
  /\ (writeFailed => ~diskOk)
  /\ \A t \in Tasks : pc[t] \in {"idle", "refreshWait", "reqWait", "awaitAll",
                                  "returned", "done"}

----------------------------------------------------------------------------
(* Steps and states the properties speak about *)

\* the refresh request of task t ends in this step, with success or failure
HandlesRefresh(t) ==
  /\ clientState' = "up"
  /\ pc[t] = "refreshWait"
  /\ pc'[t] # "refreshWait"

\* the authenticate() call of task t completes without error in this step:
\* the request it guards is sent
AuthCompletes(t) ==
  /\ clientState' = "up"
  /\ pc'[t] = "reqWait"
  /\ (pc[t] # "reqWait" \/ phase'[t] # phase[t])

\* the error of task t reaches its caller: fetchData() throws (getAppliances)
\* or the mapped task of the appliance catches it
Propagated(t, p, r, e) ==
  IF t = 0
  THEN p[0] = "returned" /\ r.status = "error"
  ELSE p[t] = "done" /\ e[t].kind = "error"

FileMatchesSession ==
  /\ file.state = "ok"
  /\ file.refreshToken = refreshToken
  /\ file.accessToken = accessToken
  /\ file.tokenExpiry = tokenExpiry

RefreshesInFlight == {t \in Tasks : pc[t] = "refreshWait"}

----------------------------------------------------------------------------
(* C1: concurrent authenticate() calls made while the session is expired   *)
(* or within the margin send one token-refresh request between them: at    *)
(* no time are two refresh requests outstanding.                           *)
C1_SingleFlightRenewal == Cardinality(RefreshesInFlight) <= 1

(* C2: the in-memory refresh token, when present, is the one most recently *)
(* issued to this process by the remote API, or the one loaded or          *)
(* configured at construction while none has been issued; it trails the    *)
(* remote API only while the response of that issuance is still to be      *)
(* handled.                                                                *)
C2_RefreshTokenIsLatest ==
  (clientState = "up" /\ refreshToken # Null) =>
    IF issuedRun = Null
    THEN refreshToken = bootToken
    ELSE \/ refreshToken = issuedRun
         \/ \E t \in Tasks : /\ pc[t] = "refreshWait"
                             /\ \/ resp[t].kind = "badjson"
                                \/ resp[t].kind = "ok" /\ resp[t].tok = issuedRun

C2_Witness ==
  /\ clientState = "up"
  /\ issued = MaxIssue
  /\ refreshToken = issuedRun
  /\ refreshToken = srvValid
  /\ RefreshesInFlight # {}

(* C3: a failed renewal leaves the session cleared and its error reaches   *)
(* the caller; a successful one replaces access token, refresh token and   *)
(* expiry together by the values of the response and persists them; the    *)
(* three fields are never seen updated in part.                            *)
C3_SessionWhole ==
  accessToken # Null => (refreshToken = accessToken /\ tokenExpiry # 0)

C3_RenewalStep ==
  \A t \in Tasks :
    HandlesRefresh(t) =>
      IF pc'[t] = "reqWait"
      THEN /\ resp[t].kind = "ok"
           /\ accessToken' = resp[t].tok
           /\ refreshToken' = resp[t].tok
           /\ tokenExpiry' = now + resp[t].expiresIn * 1000
           /\ \/ writeFailed'
              \/ /\ file'.accessToken = resp[t].tok
                 /\ file'.refreshToken = resp[t].tok
                 /\ file'.tokenExpiry = tokenExpiry'
      ELSE /\ accessToken' = Null
           /\ refreshToken' = Null
           /\ tokenExpiry' = 0
           /\ Propagated(t, pc', result', entries')

C3_RenewalOutcome == [][C3_RenewalStep]_vars /\ []C3_SessionWhole

C3_Witness ==
  /\ clientState = "up"
  /\ accessToken = Null /\ refreshToken = Null /\ tokenExpiry = 0
  /\ file.state = "ok" /\ file.accessToken > RotatedToken
  /\ \E d \in Devs : entries[d].kind = "error" /\ entries[d].origin = "refresh"

(* C4 as stated: whenever authenticate() completes without error the       *)
(* session holds an access token that expires more than 120 s from now,    *)
(* whatever expiresIn the remote API returned.                             *)
C4_ValidAfterAuth ==
  [][\A t \in Tasks :
       AuthCompletes(t) =>
         accessToken' # Null /\ tokenExpiry' > now' + MarginMs]_vars

(* C4 amended: the same, for the early return and for a renewal whose      *)
(* response carries an expiresIn of more than 120 s.                       *)
C4_ValidAfterAuthLongLived ==
  [][\A t \in Tasks :
       (AuthCompletes(t)
          /\ (pc[t] = "refreshWait" => resp[t].expiresIn * 1000 > MarginMs)) =>
         accessToken' # Null /\ tokenExpiry' > now' + MarginMs]_vars

C4_Witness ==
  /\ clientState = "up"
  /\ \E d \in Devs : pc[d] = "reqWait" /\ phase[d] = "state"
  /\ accessToken > RotatedToken
  /\ tokenExpiry > now + MarginMs
  /\ sent.refresh > 0

(* C5: the client is constructed with the refresh token persisted in the   *)
(* state file whenever the file holds one, whatever token is configured,   *)
(* and the file is left as it is; the configured token is taken, and       *)
(* written to the file, only when no persisted refresh token exists.       *)
C5_ConstructStep ==
  (clientState = "down" /\ clientState' = "up") =>
    IF file.state = "ok" /\ file.refreshToken # Null
    THEN refreshToken' = file.refreshToken /\ file' = file
    ELSE /\ refreshToken' = config.refreshToken
         /\ \/ writeFailed'
            \/ file'.state = "ok" /\ file'.refreshToken = config.refreshToken

C5_PersistedTokenFirst == [][C5_ConstructStep]_vars

C5_Witness ==
  /\ clientState = "up"
  /\ cycles = 0
  /\ refreshToken = RotatedToken
  /\ config.refreshToken = ConfigToken
  /\ file.refreshToken = RotatedToken

(* C6 as stated: absent write failures the tokens and expiry of the state  *)
(* file equal the in-memory session after every operation that mutates     *)
(* the session, a failed renewal included.                                 *)
C6_FileIsSession ==
  (clientState = "up" /\ ~writeFailed) => FileMatchesSession

(* C6 amended: absent write failures the tokens and expiry of the state    *)
(* file equal the in-memory session after every successful renewal and as  *)
(* long as no failed renewal has cleared the session; a failed renewal     *)
(* clears the session in memory only and leaves the file as it was.        *)
C6_FailureKeepsFile ==
  \A t \in Tasks :
    (HandlesRefresh(t) /\ resp[t].kind # "ok") =>
      (file' = file /\ refreshToken' = Null)

C6_FileIsLiveSession ==
  /\ [](clientState = "up" /\ ~writeFailed /\ refreshToken # Null
          => FileMatchesSession)
  /\ [][C6_FailureKeepsFile]_vars

C6_Witness ==
  /\ clientState = "up"
  /\ ~writeFailed
  /\ issued = MaxIssue
  /\ accessToken = srvValid
  /\ FileMatchesSession
  /\ Len(file.appliances) = MaxDevices

(* C7: for every in-memory state with a refresh token, saveDataToFile()    *)
(* followed by the construction of a new client from the file written      *)
(* restores refreshToken, accessToken and tokenExpiry and the (id, name)   *)
(* pairs of the inventory.                                                 *)
C7_SaveLoadRoundTrip ==
  (clientState = "up" /\ refreshToken # Null) =>
    LET f == SaveDataToFile(file, refreshToken, accessToken, tokenExpiry,
                            appliances, TRUE)
        c == Constructor(config, f, TRUE)
    IN /\ ~c.threw
       /\ c.mem.refreshToken = refreshToken
       /\ c.mem.accessToken = accessToken
       /\ c.mem.tokenExpiry = tokenExpiry
       /\ Pairs(c.mem.appliances) = Pairs(appliances)

C7_Witness ==
  /\ clientState = "up"
  /\ boots = 2
  /\ cycles = 0
  /\ accessToken > RotatedToken
  /\ refreshToken # config.refreshToken
  /\ Len(appliances) = MaxDevices
  /\ \A i \in 1 .. Len(appliances) : appliances[i].applianceType = Null
  /\ Pairs(appliances) = Pairs(Inventory(MaxDevices))

(* C8: fetchData() returns, without throwing, one entry per appliance of   *)
(* the inventory in inventory order, and an entry is an error entry only   *)
(* when a request of that appliance itself failed (its info or state       *)
(* request or, read in the code's favour, its own token-refresh request):  *)
(* no entry is an error because of what happened to a sibling.             *)
C8_PerDeviceIsolation ==
  (pc[0] = "returned" /\ sent.inv = 1 /\ Len(appliances) > 0
     /\ result.origin # "inv") =>
    /\ result.status = "list"
    /\ Len(result.entries) = Len(appliances)
    /\ \A i \in 1 .. Len(appliances) :
         /\ result.entries[i].applianceId = appliances[i].applianceId
         /\ result.entries[i].kind \in {"ok", "error"}
         /\ result.entries[i].kind = "error" =>
              /\ result.entries[i].origin \in {"info", "state", "refresh"}
              /\ result.entries[i].connected = FALSE

(* C9: when the inventory listing succeeds and is empty, fetchData()       *)
(* returns zero entries, and the cycle reports no device and publishes no  *)
(* per-device topic.                                                       *)
C9_EmptyInventoryEmptyResult ==
  (result.status = "list" /\ Len(appliances) = 0) =>
    /\ Len(result.entries) = 0
    /\ (published.summary => published.devices = 0 /\ published.topics = <<>>)

(* C10: when authentication fails at the start of a cycle, no inventory    *)
(* request and no info or state request is sent, fetchData() throws and    *)
(* yields no entry, the cycle publishes nothing, and the process keeps     *)
(* running.                                                                *)
C10_AuthFailureSkipsCycle ==
  (result.status = "error" /\ result.origin \in {"auth", "refresh"}) =>
    /\ sent.inv = 0 /\ sent.info = 0 /\ sent.state = 0
    /\ \A t \in Tasks : pc[t] \in {"returned", "idle"}
    /\ result.entries = <<>>
    /\ published = NoPublish
    /\ clientState = "up"

C10_Witness ==
  /\ result.status = "error"
  /\ result.origin = "refresh"
  /\ pc[0] = "idle"
  /\ cycles = 1
  /\ sent.refresh = 1
  /\ refreshToken = Null

ListsInventory ==
  /\ clientState' = "up"
  /\ pc[0] = "reqWait"
  /\ pc'[0] # "reqWait"
  /\ result'.status # "error"

(* C24: on a volume that takes no write, a renewal whose response is good  *)
(* still ends with the issued token pair in memory and authenticate()      *)
(* going on to its request, and an inventory listing still ends with the   *)
(* inventory in memory and no error; the file is left as it was.           *)
C24_WriteFailureStep ==
  ~diskOk =>
    /\ \A t \in Tasks :
         HandlesRefresh(t) /\ resp[t].kind = "ok" =>
           /\ accessToken' = resp[t].tok
           /\ refreshToken' = resp[t].tok
           /\ tokenExpiry' = now + resp[t].expiresIn * 1000
           /\ pc'[t] = "reqWait"
           /\ ~Propagated(t, pc', result', entries')
           /\ file' = file
    /\ ListsInventory =>
         /\ Len(appliances') \in 0 .. MaxDevices
         /\ result' \in {NoResult, Returned(EmptyInventoryResult)}
         /\ session' = session
         /\ file' = file

SessionCleared ==
  clientState = "up" /\ refreshToken = Null /\ accessToken = Null

\* requests sent during the current cycle
RequestsSent(x) == x.refresh + x.inv + x.info + x.state

(* C27: once a failed renewal has cleared the session, the session stays   *)
(* cleared as long as the process runs, and every authenticate() call      *)
(* fails with 'No refresh token available' and sends no request.           *)
C27_ClearedStep ==
  SessionCleared /\ clientState' = "up" =>
    /\ refreshToken' = Null /\ accessToken' = Null
    /\ \A t \in Tasks : pc'[t] \in {"refreshWait", "reqWait"} =>
                          pc[t] = pc'[t] /\ phase[t] = phase'[t]
    /\ cycles' = cycles + 1 =>
         result' = Thrown("auth", NoRefreshMessage) /\ RequestsSent(sent') = 0

C27_NoRecovery == [][C27_ClearedStep]_vars

(* C28: a failed renewal writes nothing to the state file, which goes on   *)
(* holding the refresh token (and access token, expiry and inventory) last *)
(* persisted; a process started on that file takes its refresh token from  *)
(* it.                                                                     *)
C28_FailureStep ==
  /\ \A t \in Tasks :
       (HandlesRefresh(t) /\ resp[t].kind # "ok") => file' = file
  /\ (clientState = "down" /\ clientState' = "up"
        /\ file.state = "ok" /\ file.refreshToken # Null) =>
       /\ refreshToken' = file.refreshToken
       /\ file' = file

C28_FailureLeavesFile ==
  /\ [][C28_FailureStep]_vars
  /\ [](SessionCleared /\ ~writeFailed =>
          file.state = "ok" /\ file.refreshToken # Null)

\* a renewal of this process was persisted, a later one failed: the session
\* is cleared and the file holds the pair of the first
C28_Witness ==
  /\ SessionCleared
  /\ issuedRun # Null
  /\ file.state = "ok"
  /\ file.refreshToken = issuedRun
  /\ file.accessToken = issuedRun

\* task t calls authenticate() in this step: at the start of a cycle, when
\* the inventory is listed, or between its info and its state request
AuthRuns(t) ==
  /\ clientState' = "up"
  /\ \/ t = 0 /\ cycles' = cycles + 1
     \/ /\ t \in 1 .. Len(appliances')
        /\ pc[0] = "reqWait" /\ pc'[0] = "awaitAll"
     \/ t # 0 /\ pc[t] = "reqWait" /\ phase[t] = "info" /\ phase'[t] = "state"

(* C30: an authenticate() call made with an access token that expires more *)
(* than 120 s from now sends no renewal request and changes neither the    *)
(* session nor the state file; made without access token, or with one that *)
(* expires within 120 s, it starts a renewal: a refresh request with the    *)
(* refresh token of the session or, without one, the error of it.          *)
C30_AuthStep ==
  \A t \in Tasks :
    AuthRuns(t) =>
      /\ session' = session
      /\ (t = 0 \/ pc'[0] = pc[0]) => file' = file
      /\ file'.refreshToken = file.refreshToken \/ file'.refreshToken = refreshToken
      /\ IF accessToken # Null /\ tokenExpiry - now > MarginMs
         THEN /\ pc'[t] = "reqWait"
              /\ sentTok'[t] = Null
              /\ sent'.refresh = IF t = 0 THEN 0 ELSE sent.refresh
         ELSE IF refreshToken # Null
         THEN /\ pc'[t] = "refreshWait"
              /\ sentTok'[t] = refreshToken
              /\ sent'.refresh > IF t = 0 THEN 0 ELSE sent.refresh
         ELSE /\ Propagated(t, pc', result', entries')
              /\ sent'.refresh = IF t = 0 THEN 0 ELSE sent.refresh

C30_RenewalOnlyWithinMargin == [][C30_AuthStep]_vars

\* a cycle started with a token good for twice the margin: the inventory
\* request is out and no refresh request was sent
C30_Witness ==
  /\ clientState = "up"
  /\ pc[0] = "reqWait"
  /\ accessToken # Null /\ tokenExpiry - now = 2 * MarginMs
  /\ sent.refresh = 0 /\ sent.inv = 1
  /\ issued = 0

\* the step of the client that ends the request task t waits for: the
\* handling of a response or of a rejected fetch()
RequestEnds(t) ==
  \/ RefreshLost(t) \/ RefreshRejected(t)
  \/ RefreshSucceeded(t) \/ RefreshUnparseable(t)
  \/ t = 0 /\ (InventoryFailed \/ InventoryListed)
  \/ t # 0 /\ (DeviceRequestFailed(t) \/ InfoFetched(t) \/ StateFetched(t))

(* C29: no request leaves the cycle outstanding forever: whenever a task   *)
(* of fetchData() waits for a token, inventory, info or state request, the *)
(* client has a step that ends the wait, also when the remote API never    *)
(* answers that request.                                                   *)
C29_EveryRequestEnds ==
  \A t \in Tasks :
    (clientState = "up" /\ pc[t] \in {"refreshWait", "reqWait"}) =>
      ENABLED RequestEnds(t)

\* the session holds the pair the remote API issued last to this process
HoldsIssuedPair ==
  /\ clientState = "up"
  /\ issuedRun # Null
  /\ refreshToken = issuedRun /\ accessToken = issuedRun

(* C32: the failure handling of a concurrent renewal attempt never clears  *)
(* or overwrites the session a successful renewal installed: a step that   *)
(* handles the failure of a refresh request sent with an older refresh     *)
(* token, while the session holds the pair issued last, leaves the session *)
(* as it is.                                                               *)
C32_FailureStep ==
  \A t \in Tasks :
    (/\ HoldsIssuedPair
     /\ HandlesRefresh(t) /\ resp[t].kind # "ok"
     /\ sentTok[t] # refreshToken) =>
      session' = session

C32_RenewalNeverLost == [][C32_FailureStep]_vars

\* task t sends its inventory, info or state request in this step
SendsRequest(t) == AuthCompletes(t)

(* C33: every inventory, info and state request goes out with a non-null   *)
(* access token that is the one of the session when the request is sent:   *)
(* the token the session had before the step, or the one the renewal of    *)
(* the sending task has just installed.                                    *)
C33_SendStep ==
  \A t \in Tasks :
    SendsRequest(t) =>
      /\ accessToken' # Null
      /\ \/ accessToken' = accessToken /\ pc[t] # "refreshWait"
         \/ accessToken' = resp[t].tok /\ pc[t] = "refreshWait"

C33_RequestCarriesSessionToken == [][C33_SendStep]_vars

\* a device task has sent its state request after a sibling's renewal failed
\* and another renewal succeeded in the same cycle
C33_Witness ==
  /\ clientState = "up"
  /\ \E d \in Devs : pc[d] = "reqWait" /\ phase[d] = "state"
  /\ sent.refresh > 0
  /\ accessToken # Null

(* C34: every write of the state file has a refresh token in it: a step    *)
(* that changes the file leaves a readable file with a refresh token, and  *)
(* a file that has a refresh token never loses it.                         *)
C34_WriteStep ==
  /\ file' # file => file'.state = "ok" /\ file'.refreshToken # Null
  /\ (file.state = "ok" /\ file.refreshToken # Null) =>
       (file'.state = "ok" /\ file'.refreshToken # Null)

----------------------------------------------------------------------------
(***************************************************************************)
(* sanitizeId() (src/src/services/homeAssistant.ts), looked at on its own. *)
(* A string is a sequence of one-character strings. The characters below   *)
(* stand for the classes the regular expressions of sanitizeId() tell      *)
(* apart.                                                                  *)
(***************************************************************************)

\* the API client is not running
ClientParked ==
  /\ clientState = "down"
  /\ config = [apiKey |-> TRUE, refreshToken |-> ConfigToken,
               mqttHost |-> TRUE]
  /\ accessToken = Null
  /\ refreshToken = Null
  /\ tokenExpiry = 0
  /\ appliances = <<>>
  /\ file = AbsentFile
  /\ diskOk = TRUE
  /\ now = Now0
  /\ ticks = 0
  /\ srvValid = ConfigToken
  /\ issued = 0
  /\ pc = [t \in Tasks |-> "idle"]
  /\ phase = [t \in Tasks |-> "inv"]
  /\ sentTok = [t \in Tasks |-> Null]
  /\ resp = [t \in Tasks |-> NoResp]
  /\ entries = [d \in Devs |-> NoEntry]
  /\ result = NoResult
  /\ published = NoPublish
  /\ boots = 0
  /\ cycles = 0
  /\ sent = NoSent
  /\ issuedRun = Null
  /\ bootToken = Null
  /\ writeFailed = FALSE

RECURSIVE Chars(_)
\* the characters of a string, in order
Chars(str) ==
  IF str = "" THEN <<>>
  ELSE <<SubSeq(str, 1, 1)>> \o Chars(SubSeq(str, 2, Len(str)))

LowerCase == Chars("abcdefghijklmnopqrstuvwxyz")
UpperCase == Chars("ABCDEFGHIJKLMNOPQRSTUVWXYZ")
Range(f) == {f[i] : i \in DOMAIN f}
LowerLetters == Range(LowerCase)
UpperLetters == Range(UpperCase)

Letters == LowerLetters \cup UpperLetters
Digits == {"0", "1", "2", "3", "4", "5", "6", "7", "8", "9"}
Separators == {"_", "-"}

\* one character of each class: a letter, a digit, the characters the
\* expressions name, and one they do not (removed by the last class)
IdChars == {"a", "1", "_", "-", ".", " ", ":", "&", "+", "#", "!"}

RECURSIVE IdsOfLen(_)
IdsOfLen(n) ==
  IF n = 0 THEN {<<>>}
  ELSE {<<c>> \o t : c \in IdChars, t \in IdsOfLen(n - 1)}

\* the ids of up to n characters
Ids(n) == UNION {IdsOfLen(m) : m \in 0 .. n}

Str_unknown == <<"u", "n", "k", "n", "o", "w", "n">>
Str_plus == <<"p", "l", "u", "s">>
Str_hash == <<"h", "a", "s", "h">>

RECURSIVE DropRun(_, _)
\* s without its longest prefix of characters of cls
DropRun(s, cls) ==
  IF s # <<>> /\ Head(s) \in cls THEN DropRun(Tail(s), cls) ELSE s

RECURSIVE ReplaceRuns(_, _, _)
\* s.replace(/[cls]+/g, r)
ReplaceRuns(s, cls, r) ==
  IF s = <<>> THEN <<>>
  ELSE IF Head(s) \in cls
       THEN r \o ReplaceRuns(DropRun(Tail(s), cls), cls, r)
       ELSE <<Head(s)>> \o ReplaceRuns(Tail(s), cls, r)

RECURSIVE ReplaceEach(_, _, _)
\* s.replace(/[cls]/g, r)
ReplaceEach(s, cls, r) ==
  IF s = <<>> THEN <<>>
  ELSE (IF Head(s) \in cls THEN r ELSE <<Head(s)>>)
         \o ReplaceEach(Tail(s), cls, r)

\* s.replace(/[^keep]/g, '')
KeepOnly(s, keep) == SelectSeq(s, LAMBDA c : c \in keep)

PrefixLeading_Skipped(s) == s

\* s.replace(/^[0-9-]/, 'a$&')
PrefixLeading(s) ==
  IF s # <<>> /\ Head(s) \in Digits \cup {"-"} THEN <<"a">> \o s ELSE s

\* s.replace(/__+/g, '_')
CollapseUnderscores(s) == ReplaceRuns(s, {"_"}, <<"_">>)

TopicAllowed == Letters \cup Digits \cup {"_", "-"}
UniqueAllowed == TopicAllowed \cup {"."}

\* sanitizeId(id, forUniqueId)
SanitizeId(id, forUniqueId) ==
  IF id = <<>> THEN Str_unknown
  ELSE IF forUniqueId
  THEN LET s1 == ReplaceRuns(id, {" ", ",", ";", "\\"}, <<"_">>)
           s2 == ReplaceRuns(s1, {"/", ":", "?", "&", "="}, <<"-">>)
           s3 == KeepOnly(s2, UniqueAllowed)
       IN  CollapseUnderscores(PrefixLeading(s3))
  ELSE LET s1 == ReplaceRuns(id, {" ", ",", ":", ";", "/", "\\"}, <<"_">>)
           s2 == ReplaceEach(s1, {"+"}, Str_plus)
           s3 == ReplaceEach(s2, {"#"}, Str_hash)
           s4 == ReplaceEach(s3, {"&", "?", "="}, <<>>)
           s5 == KeepOnly(s4, TopicAllowed)
       IN  CollapseUnderscores(PrefixLeading(s5))

InitSanitize ==
  /\ ClientParked
  /\ PollParked
  /\ SenParked
  /\ HaParked
  /\ sanId \in Ids(MaxIdLen)
  /\ sanTopic = <<>>
  /\ sanUnique = <<>>
  /\ sanDone = FALSE

\* both forms of the id are computed, as registerDevice() and createSensor()
\* do for an appliance
Sanitize ==
  /\ ~sanDone
  /\ sanTopic' = SanitizeId(sanId, FALSE)
  /\ sanUnique' = SanitizeId(sanId, TRUE)
  /\ sanDone' = TRUE
  /\ UNCHANGED <<clientVars, poll, senVars, haVars, sanId>>

NextSanitize == Sanitize

SpecSanitize == InitSanitize /\ [][NextSanitize]_vars

\* s has two separator characters next to each other
HasSeparatorPair(s) ==
  \E i \in 1 .. Len(s) - 1 : s[i] \in Separators /\ s[i + 1] \in Separators

(* C17: for every id, both forms returned by sanitizeId() consist of their *)
(* allowed characters only (topic form: letters, digits, underscore, dash; *)
(* unique-id form: also the dot) and begin with neither a digit nor a dash.*)
C17_AllowedCharacters ==
  sanDone =>
    /\ \A i \in 1 .. Len(sanTopic) : sanTopic[i] \in TopicAllowed
    /\ \A i \in 1 .. Len(sanUnique) : sanUnique[i] \in UniqueAllowed
    /\ sanTopic # <<>> => sanTopic[1] \notin Digits \cup {"-"}
    /\ sanUnique # <<>> => sanUnique[1] \notin Digits \cup {"-"}

\* an id that begins with a digit and holds a character to replace and one
\* to remove
C17_Witness ==
  /\ sanDone
  /\ sanId = <<"1", "#", "!">>
  /\ sanTopic = <<"a", "1">> \o Str_hash
  /\ sanUnique = <<"a", "1">>

(* C18: for every id, neither form returned by sanitizeId() holds two      *)
(* separator characters (underscore, dash) next to each other.             *)
C18_NoSeparatorPair ==
  sanDone => ~HasSeparatorPair(sanTopic) /\ ~HasSeparatorPair(sanUnique)


(* C38: sanitizeId() never returns the empty string, in either variant.    *)
C38_NeverEmpty ==
  sanDone => sanTopic # <<>> /\ sanUnique # <<>>

----------------------------------------------------------------------------
(***************************************************************************)
(* createSensors() and createSensor() (src/src/services/homeAssistant.ts), *)
(* looked at on their own: the discovery documents of one appliance        *)
(* record. Topics, names, ids and templates are strings, as in the code.   *)
(***************************************************************************)

RECURSIVE Str(_)
\* the string made of the characters of s
Str(s) == IF s = <<>> THEN "" ELSE Head(s) \o Str(Tail(s))

\* sanitizeId() from string to string
SanitizeStr(id, forUniqueId) == Str(SanitizeId(Chars(id), forUniqueId))

\* String.prototype.toLowerCase() / toUpperCase() of one character
ToLower(c) ==
  IF c \in UpperLetters
  THEN LowerCase[CHOOSE i \in DOMAIN UpperCase : UpperCase[i] = c] ELSE c
ToUpper(c) ==
  IF c \in LowerLetters
  THEN UpperCase[CHOOSE i \in DOMAIN LowerCase : LowerCase[i] = c] ELSE c

RECURSIVE SpaceCapitals(_)
\* s.replace(/([A-Z])/g, ' $1')
SpaceCapitals(s) ==
  IF s = <<>> THEN <<>>
  ELSE (IF Head(s) \in UpperLetters THEN <<" ", Head(s)>>
        ELSE <<Head(s)>>) \o SpaceCapitals(Tail(s))

RECURSIVE DropTrailing(_, _)
DropTrailing(s, cls) ==
  IF s # <<>> /\ s[Len(s)] \in cls
  THEN DropTrailing(SubSeq(s, 1, Len(s) - 1), cls) ELSE s

\* s.trim()
Trim(s) == DropTrailing(DropRun(s, {" "}), {" "})

\* formatPropertyName(propertyName)
FormatPropertyName(propertyName) ==
  LET s1 == SpaceCapitals(Chars(propertyName))
      s2 == IF s1 = <<>> THEN s1 ELSE <<ToUpper(Head(s1))>> \o Tail(s1)
  IN  Str(Trim(s2))

\* name.toLowerCase().replace(/\s+/g, '_')
NameSlug(name) ==
  LET cs == Chars(name)
      lower == [i \in DOMAIN cs |-> ToLower(cs[i])]
  IN  Str(ReplaceRuns(lower, {" "}, <<"_">>))

\* uniqueId.replace(/[^a-zA-Z0-9_\-]/g, '_')
TopicSegment(uniqueId) ==
  LET cs == Chars(uniqueId)
  IN  Str([i \in DOMAIN cs |-> IF cs[i] \in TopicAllowed THEN cs[i] ELSE "_"])

\* the configuration createHomeAssistantServiceFromEnv() builds for a node id
HaConfig(nodeId) ==
  [discoveryPrefix |-> "homeassistant", nodeId |-> nodeId,
   statusTopic |-> nodeId \o "/status", enabled |-> TRUE]

DefaultNodeId == "electrolux2mqtt"

\* `electrolux2mqtt/${applianceId}/state`
StateTopic(applianceId) == "electrolux2mqtt/" \o applianceId \o "/state"

\* the argument of createSensor(), optional properties absent ("")
SensorConfig(applianceId, originalId, deviceInfo, name, component, stateTopic, valueTemplate) ==
  [applianceId |-> applianceId, originalId |-> originalId,
   deviceInfo |-> deviceInfo, name |-> name, uniqueId |-> "",
   component |-> component, stateTopic |-> stateTopic,
   valueTemplate |-> valueTemplate, deviceClass |-> "",
   unitOfMeasurement |-> "", icon |-> "", entityCategory |-> "",
   payloadOn |-> "", payloadOff |-> ""]

CreateSensor_OwnAvailability(cfg, c) ==
  LET uniqueId ==
        IF c.uniqueId # "" THEN c.uniqueId
        ELSE IF c.originalId # ""
             THEN SanitizeStr(c.originalId, TRUE) \o "_" \o NameSlug(c.name)
             ELSE c.applianceId \o "_" \o NameSlug(c.name)
  IN  [topic |-> cfg.discoveryPrefix \o "/" \o c.component \o "/"
                   \o c.applianceId \o "/" \o TopicSegment(uniqueId)
                   \o "/config",
       name |-> c.name,
       unique_id |-> uniqueId,
       state_topic |-> c.stateTopic,
       value_template |-> c.valueTemplate,
       availability_topic |-> c.stateTopic,
       payload_available |-> "online",
       payload_not_available |-> "offline",
       device |-> c.deviceInfo,
       device_class |-> c.deviceClass,
       unit_of_measurement |-> c.unitOfMeasurement,
       icon |-> c.icon,
       entity_category |-> c.entityCategory,
       payload_on |-> c.payloadOn,
       payload_off |-> c.payloadOff,
       retain |-> TRUE]

\* createSensor(config): the discovery document it publishes (retained)
CreateSensor(cfg, c) ==
  LET uniqueId ==
        IF c.uniqueId # "" THEN c.uniqueId
        ELSE IF c.originalId # ""
             THEN SanitizeStr(c.originalId, TRUE) \o "_" \o NameSlug(c.name)
             ELSE c.applianceId \o "_" \o NameSlug(c.name)
  IN  [topic |-> cfg.discoveryPrefix \o "/" \o c.component \o "/"
                   \o c.applianceId \o "/" \o TopicSegment(uniqueId)
                   \o "/config",
       name |-> c.name,
       unique_id |-> uniqueId,
       state_topic |-> c.stateTopic,
       value_template |-> c.valueTemplate,
       availability_topic |-> cfg.statusTopic,
       payload_available |-> "online",
       payload_not_available |-> "offline",
       device |-> c.deviceInfo,
       device_class |-> c.deviceClass,
       unit_of_measurement |-> c.unitOfMeasurement,
       icon |-> c.icon,
       entity_category |-> c.entityCategory,
       payload_on |-> c.payloadOn,
       payload_off |-> c.payloadOff,
       retain |-> TRUE]

\* a reported value: its typeof, and for an object the keys it holds
Scalar(type) == [type |-> type, keys |-> {}]
Object(keys) == [type |-> "object", keys |-> keys]

\* state.key !== undefined, for the reported state of a record
HasKey(state, key) == \E i \in DOMAIN state : state[i].key = key
ValueAt(state, key) ==
  state[CHOOSE i \in DOMAIN state : state[i].key = key].value

\* state.userSelections?.humidityTarget !== undefined
HasHumidityTarget(state) ==
  /\ HasKey(state, "userSelections")
  /\ "humidityTarget" \in ValueAt(state, "userSelections").keys

\* registerDevice(): deviceInfo (no firmware version key is reported)
DeviceInfo(cfg, rec) ==
  [identifiers |-> rec.applianceId,
   name |-> IF rec.name # "" THEN rec.name
            ELSE "Electrolux " \o rec.deviceType,
   manufacturer |-> "Electrolux",
   model |-> IF rec.modelName # "" THEN rec.modelName ELSE "Unknown",
   sw_version |-> "1.0.0",
   via_device |-> cfg.nodeId]

\* the sensor arguments every createSensor() call of createSensors() shares
ApplianceSensor(cfg, rec, name, component, valueTemplate) ==
  SensorConfig(SanitizeStr(rec.applianceId, FALSE), rec.applianceId,
               DeviceInfo(cfg, rec), name, component,
               StateTopic(SanitizeStr(rec.applianceId, FALSE)), valueTemplate)

\* createSensors(): the connection and device status sensors
AlwaysSensors(cfg, rec) ==
  << CreateSensor(cfg,
       [ApplianceSensor(cfg, rec, "Connection", "binary_sensor",
                        "{{ value_json.connected }}")
          EXCEPT !.deviceClass = "connectivity", !.payloadOn = "true",
                 !.payloadOff = "false", !.entityCategory = "diagnostic",
                 !.icon = "mdi:wifi"]),
     CreateSensor(cfg,
       [ApplianceSensor(cfg, rec, "Device Status", "sensor",
          IF rec.deviceType = "TUMBLE_DRYER"
          THEN "{{ value_json.applianceState + (value_json.doorState ? \" (Door \" + value_json.doorState + \")\" : \"\") }}"
          ELSE "{{ value_json.status || value_json.applianceState || \"Unknown\" }}")
          EXCEPT !.icon = "mdi:information"]) >>

ClimateSensors_HumidityWithTemperature(cfg, rec) ==
  IF HasKey(rec.state, "temperature")
  THEN << CreateSensor(cfg,
            [ApplianceSensor(cfg, rec, "Temperature", "sensor",
                             "{{ value_json.temperature }}")
               EXCEPT !.deviceClass = "temperature",
                      !.unitOfMeasurement = "C"]),
          CreateSensor(cfg,
            [ApplianceSensor(cfg, rec, "Humidity", "sensor",
                             "{{ value_json.humidity }}")
               EXCEPT !.deviceClass = "humidity",
                      !.unitOfMeasurement = "%"]) >>
  ELSE <<>>

\* createSensors(): temperature and humidity, when reported (the unit of the
\* temperature is written without its degree sign)
ClimateSensors(cfg, rec) ==
  (IF HasKey(rec.state, "temperature")
   THEN << CreateSensor(cfg,
             [ApplianceSensor(cfg, rec, "Temperature", "sensor",
                              "{{ value_json.temperature }}")
                EXCEPT !.deviceClass = "temperature",
                       !.unitOfMeasurement = "C"]) >>
   ELSE <<>>)
  \o
  (IF HasKey(rec.state, "humidity")
   THEN << CreateSensor(cfg,
             [ApplianceSensor(cfg, rec, "Humidity", "sensor",
                              "{{ value_json.humidity }}")
                EXCEPT !.deviceClass = "humidity",
                       !.unitOfMeasurement = "%"]) >>
   ELSE <<>>)

LaundryTypes == {"WASHER", "DRYER", "DISHWASHER", "TUMBLE_DRYER"}

\* createSensors(): program, status and remaining time of washers and dryers
LaundrySensors(cfg, rec) ==
  LET tumble == rec.deviceType = "TUMBLE_DRYER" IN
  IF rec.deviceType \notin LaundryTypes THEN <<>>
  ELSE
    << CreateSensor(cfg,
         [ApplianceSensor(cfg, rec, "Program", "sensor",
            IF tumble THEN "{{ value_json.userSelections.programUID }}"
            ELSE "{{ value_json.program }}")
            EXCEPT !.icon = "mdi:washing-machine"]),
       CreateSensor(cfg,
         [ApplianceSensor(cfg, rec, "Status", "sensor",
            IF tumble THEN "{{ value_json.applianceState }}"
            ELSE "{{ value_json.status }}")
            EXCEPT !.icon = "mdi:information-outline"]) >>
    \o
    (IF \/ HasKey(rec.state, "remainingTime")
        \/ (HasKey(rec.state, "timeToEnd") /\ tumble)
     THEN << CreateSensor(cfg,
               [ApplianceSensor(cfg, rec, "Remaining Time", "sensor",
                  IF tumble THEN "{{ value_json.timeToEnd | int / 60 }}"
                  ELSE "{{ value_json.remainingTime }}")
                  EXCEPT !.unitOfMeasurement = "min",
                         !.icon = "mdi:timer-outline"]) >>
     ELSE <<>>)

\* createSensors(): door, cycle phase and humidity target of a tumble dryer
TumbleDryerSensors(cfg, rec) ==
  IF rec.deviceType # "TUMBLE_DRYER" THEN <<>>
  ELSE
    (IF HasKey(rec.state, "doorState")
     THEN << CreateSensor(cfg,
               [ApplianceSensor(cfg, rec, "Door State", "sensor",
                                "{{ value_json.doorState }}")
                  EXCEPT !.icon = "mdi:door"]) >>
     ELSE <<>>)
    \o
    (IF HasKey(rec.state, "cyclePhase")
     THEN << CreateSensor(cfg,
               [ApplianceSensor(cfg, rec, "Cycle Phase", "sensor",
                                "{{ value_json.cyclePhase }}")
                  EXCEPT !.icon = "mdi:washing-machine"]) >>
     ELSE <<>>)
    \o
    (IF HasHumidityTarget(rec.state)
     THEN << CreateSensor(cfg,
               [ApplianceSensor(cfg, rec, "Humidity Target", "sensor",
                  "{{ value_json.userSelections.humidityTarget }}")
                  EXCEPT !.icon = "mdi:water-percent"]) >>
     ELSE <<>>)

\* createSensors(): fridge and freezer temperature of a refrigerator; these
\* two calls pass a uniqueId and no originalId
FridgeSensors(cfg, rec) ==
  LET applianceId == SanitizeStr(rec.applianceId, FALSE) IN
  IF rec.deviceType # "FRIDGE" THEN <<>>
  ELSE
    (IF HasKey(rec.state, "fridgeTemperature")
     THEN << CreateSensor(cfg,
               [ApplianceSensor(cfg, rec, "Fridge Temperature", "sensor",
                                "{{ value_json.fridgeTemperature }}")
                  EXCEPT !.originalId = "",
                         !.uniqueId = applianceId \o "_fridge_temperature",
                         !.deviceClass = "temperature",
                         !.unitOfMeasurement = "C"]) >>
     ELSE <<>>)
    \o
    (IF HasKey(rec.state, "freezerTemperature")
     THEN << CreateSensor(cfg,
               [ApplianceSensor(cfg, rec, "Freezer Temperature", "sensor",
                                "{{ value_json.freezerTemperature }}")
                  EXCEPT !.originalId = "",
                         !.uniqueId = applianceId \o "_freezer_temperature",
                         !.deviceClass = "temperature",
                         !.unitOfMeasurement = "C"]) >>
     ELSE <<>>)

\* the keys the generic loop of createSensors() skips
HandledKeys ==
  {"connected", "temperature", "humidity", "program", "status",
   "remainingTime", "fridgeTemperature", "freezerTemperature", "doorState",
   "timeToEnd", "cyclePhase", "applianceState", "userSelections",
   "device_status"}

\* the generic loop skips nothing but objects
\* createSensors(): the entries of the state the generic loop makes a sensor of
GenericEntries(state) ==
  SelectSeq(state, LAMBDA e : e.key \notin HandledKeys
                              /\ e.value.type # "object")

\* createSensors(): the generic sensor of one entry of the state
GenericSensor(cfg, rec, e) ==
  LET boolean == e.value.type = "boolean" IN
  CreateSensor(cfg,
    [ApplianceSensor(cfg, rec, FormatPropertyName(e.key),
                     IF boolean THEN "binary_sensor" ELSE "sensor",
                     "{{ value_json." \o e.key \o " }}")
       EXCEPT !.payloadOn = IF boolean THEN "true" ELSE "",
              !.payloadOff = IF boolean THEN "false" ELSE ""])

GenericSensors_FirstDeviceOnly(cfg, rec) ==
  LET es == GenericEntries(rec.state)
  IN  IF deviceRegistrations = {}
      THEN [i \in DOMAIN es |-> GenericSensor(cfg, rec, es[i])]
      ELSE <<>>

\* createSensors(): the generic loop over Object.entries(state)
GenericSensors(cfg, rec) ==
  LET es == GenericEntries(rec.state)
  IN  [i \in DOMAIN es |-> GenericSensor(cfg, rec, es[i])]

\* createSensors(): the discovery documents in the order they are published
CreateSensors(cfg, rec) ==
  AlwaysSensors(cfg, rec) \o ClimateSensors(cfg, rec)
    \o LaundrySensors(cfg, rec) \o TumbleDryerSensors(cfg, rec)
    \o FridgeSensors(cfg, rec) \o GenericSensors(cfg, rec)

----------------------------------------------------------------------------
(* The records createSensors() is looked at with *)

DeviceTypes == {"FRIDGE", "TUMBLE_DRYER", "WASHER", "OVEN"}

NumberKeys == {"temperature", "humidity", "remainingTime", "timeToEnd",
               "fridgeTemperature", "freezerTemperature",
               "targetTemperature"}
StringKeys == {"program", "status", "doorState", "cyclePhase",
               "applianceState", "device_status", "deviceStatus"}
BooleanKeys == {"connected", "ecoMode"}
ObjectKeys == {"userSelections", "networkInterface"}
StateKeys == NumberKeys \cup StringKeys \cup BooleanKeys \cup ObjectKeys

\* the values a key is reported with
KeyValues(key) ==
  IF key = "userSelections"
  THEN {Object({"programUID"})}
  ELSE IF key \in ObjectKeys THEN {Object({"linkQuality"})}
  ELSE IF key \in BooleanKeys THEN {Scalar("boolean")}
  ELSE IF key \in NumberKeys THEN {Scalar("number")}
  ELSE {Scalar("string")}

\* the keys in the order the appliance reports them
KeyOrder ==
  <<"connected", "applianceState", "doorState", "temperature", "humidity",
    "program", "status", "remainingTime", "timeToEnd", "cyclePhase",
    "userSelections", "fridgeTemperature", "freezerTemperature",
    "device_status", "ecoMode", "targetTemperature", "networkInterface",
    "deviceStatus">>

RECURSIVE PickEntries(_, _, _)
\* the reported state holding the keys of KeyOrder at the positions of S
PickEntries(i, S, target) ==
  IF i > Len(KeyOrder) THEN <<>>
  ELSE (IF i \in S
        THEN LET k == KeyOrder[i]
                 v == IF k = "userSelections" /\ target
                      THEN Object({"programUID", "humidityTarget"})
                      ELSE CHOOSE x \in KeyValues(k) : TRUE
             IN  <<[key |-> k, value |-> v]>>
        ELSE <<>>) \o PickEntries(i + 1, S, target)

\* the reported states of up to n keys
ReportedStates(n) ==
  {PickEntries(1, S, target) :
     S \in {T \in SUBSET DOMAIN KeyOrder : Cardinality(T) <= n},
     target \in BOOLEAN}

\* processApplianceData() of the API client: the record of an appliance
Record(applianceId, name, deviceType, state) ==
  [kind |-> "ok", applianceId |-> applianceId, name |-> name,
   deviceType |-> deviceType, modelName |-> "Unknown Model",
   connected |-> FALSE, state |-> state]

InitSensors ==
  /\ ClientParked
  /\ PollParked
  /\ SanParked
  /\ HaParked
  /\ senRec \in {Record("9/a.b", "Kitchen", t, st) :
                   t \in DeviceTypes, st \in ReportedStates(MaxKeys)}
  /\ senDocs = <<>>
  /\ senDone = FALSE

\* createSensors() runs for the record
RunCreateSensors ==
  /\ ~senDone
  /\ senDocs' = CreateSensors(HaConfig(DefaultNodeId), senRec)
  /\ senDone' = TRUE
  /\ UNCHANGED <<clientVars, poll, sanVars, haVars, senRec>>

NextSensors == RunCreateSensors

SpecSensors == InitSensors /\ [][NextSensors]_vars

\* the document reads the key of the published state
Exposes(doc, key) ==
  \/ doc.value_template = "{{ value_json." \o key \o " }}"
  \/ /\ doc.name = "Device Status"
     /\ \/ key = "applianceState"
        \/ key = "status" /\ senRec.deviceType # "TUMBLE_DRYER"
        \/ key = "doorState" /\ senRec.deviceType = "TUMBLE_DRYER"
  \/ /\ doc.name = "Remaining Time"
     /\ key = "timeToEnd"
     /\ senRec.deviceType = "TUMBLE_DRYER"

DocNames == {senDocs[i].name : i \in DOMAIN senDocs}

(* C15: every key of the reported state whose value is a scalar (boolean,  *)
(* number or string) is read by a document of the set generated for the    *)
(* record: by one of the fixed or category sensors created for this        *)
(* appliance, or by a generic sensor (binary sensor with true/false        *)
(* payloads for a boolean, plain sensor otherwise).                        *)
C15_EveryScalarHasSensor ==
  senDone =>
    \A i \in DOMAIN senRec.state :
      senRec.state[i].value.type # "object" =>
        \E j \in DOMAIN senDocs : Exposes(senDocs[j], senRec.state[i].key)

(* C16: the set generated for a record always holds the Connection and the *)
(* Device Status sensor, holds a Temperature sensor exactly when the state *)
(* has key temperature and a Humidity sensor exactly when it has key       *)
(* humidity; a refrigerator reporting temperature alone gets exactly three *)
(* documents.                                                              *)
C16_FixedAndClimateSensors ==
  senDone =>
    /\ {"Connection", "Device Status"} \subseteq DocNames
    /\ "Temperature" \in DocNames <=> HasKey(senRec.state, "temperature")
    /\ "Humidity" \in DocNames <=> HasKey(senRec.state, "humidity")
    /\ (senRec.deviceType = "FRIDGE"
          /\ {senRec.state[i].key : i \in DOMAIN senRec.state}
               = {"temperature"})
         => Len(senDocs) = 3

C16_Witness ==
  /\ senDone
  /\ senRec.deviceType = "FRIDGE"
  /\ Len(senRec.state) = 1
  /\ HasKey(senRec.state, "temperature")
  /\ [i \in DOMAIN senDocs |-> senDocs[i].name]
       = <<"Connection", "Device Status", "Temperature">>


(* C36: the documents generated for one device have pairwise distinct      *)
(* unique ids and pairwise distinct discovery topics, whatever keys the    *)
(* state reports.                                                          *)
C36_UniqueIdsDistinct ==
  senDone =>
    \A m, n \in DOMAIN senDocs :
      (\/ senDocs[m].unique_id = senDocs[n].unique_id
       \/ senDocs[m].topic = senDocs[n].topic) => m = n

----------------------------------------------------------------------------
(***************************************************************************)
(* The Home Assistant service (src/src/services/homeAssistant.ts):         *)
(* initialize(), processApplianceData() with registerDevice() and          *)
(* publishState(), publishBridgeState() and handleShutdown(). A call of    *)
(* processApplianceData() yields at every bus publish it awaits, so one    *)
(* action is the code from the completion of one publish to the start of   *)
(* the next. The callers of processApplianceData() are outside the service *)
(* and may call it again before an earlier call has returned.              *)
(***************************************************************************)

NodeIds == {DefaultNodeId, "bridge"}

Fridge ==
  Record("fridge 1", "Kitchen", "FRIDGE",
         <<[key |-> "temperature", value |-> Scalar("number")]>>)
Oven ==
  Record("oven", "", "OVEN", <<[key |-> "ecoMode", value |-> Scalar("boolean")]>>)
\* a second fridge, whose id differs from the first one's in a character
\* that sanitizeId() replaces
FridgeTwin ==
  Record("fridge_1", "Cellar", "FRIDGE",
         <<[key |-> "temperature", value |-> Scalar("number")]>>)
\* the oven at a later cycle: its reported state has gained a key
OvenGrown ==
  Record("oven", "", "OVEN",
         <<[key |-> "ecoMode", value |-> Scalar("boolean")],
           [key |-> "targetTemperature", value |-> Scalar("number")]>>)
\* fetchData(): the entry of an appliance whose fetch failed
OvenFailed == [NoRecord EXCEPT !.kind = "error", !.applianceId = "oven",
                               !.name = "Oven"]
\* fetchData(): the entry returned for an empty inventory
NoAppliances == [NoRecord EXCEPT !.kind = "message"]

\* the data processApplianceData() is called with
HaInputs == {<<Fridge, Oven>>, <<Oven>>, <<OvenGrown>>,
             <<OvenFailed, Fridge, FridgeTwin>>,
             <<NoAppliances>>}

CallIds == 1 .. MaxCalls

\* createSensors() and sanitizeId() for the records above, worked out once
\* HOME_ASSISTANT_ENABLED is not 'true'
DisabledConfig == [HaConfig(DefaultNodeId) EXCEPT !.enabled = FALSE]

HaConfigs == {HaConfig(n) : n \in NodeIds} \cup {DisabledConfig}
SensorsOf == [cfg \in HaConfigs |->
                [rec \in {Fridge, FridgeTwin, Oven, OvenGrown} |->
                   CreateSensors(cfg, rec)]]
TopicIdOf == [id \in {"fridge 1", "fridge_1", "oven"} |->
               SanitizeStr(id, FALSE)]

\* registerBridge(): the discovery documents of the bridge
BridgeSensors(cfg) ==
  LET bridgeId == cfg.nodeId
      deviceInfo == [identifiers |-> bridgeId,
                     name |-> "Electrolux2MQTT Bridge",
                     manufacturer |-> "fsales", model |-> "Bridge",
                     sw_version |-> "1.0.0", via_device |-> ""]
      bridgeStateTopic == bridgeId \o "/state"
  IN  << CreateSensor(cfg,
           [SensorConfig(bridgeId, bridgeId, deviceInfo, "Status",
                         "binary_sensor", cfg.statusTopic, "{{ value }}")
              EXCEPT !.deviceClass = "connectivity", !.payloadOn = "online",
                     !.payloadOff = "offline",
                     !.entityCategory = "diagnostic", !.icon = "mdi:bridge"]),
         CreateSensor(cfg,
           [SensorConfig(bridgeId, bridgeId, deviceInfo, "Version", "sensor",
                         bridgeStateTopic, "{{ value_json.version }}")
              EXCEPT !.entityCategory = "diagnostic",
                     !.icon = "mdi:package-variant"]),
         CreateSensor(cfg,
           [SensorConfig(bridgeId, bridgeId, deviceInfo, "Uptime", "sensor",
                         bridgeStateTopic, "{{ value_json.uptime }}")
              EXCEPT !.unitOfMeasurement = "seconds",
                     !.entityCategory = "diagnostic",
                     !.icon = "mdi:clock-outline"]) >>

Enabled_Always(cfg) == TRUE

\* if (!this.config.enabled) return, at the head of initialize(),
\* handleShutdown(), publishAvailability() and processApplianceData()
Enabled(cfg) == cfg.enabled

PublishThrows_Uncaught(kind, ok) == ~ok

\* the error of a failed mqtt.publish leaves createSensor() (kind "disc") or
\* publishState() (kind "state"): both catch and log it
PublishThrows(kind, ok) == FALSE

\* startService.handleShutdown(): polling stopped, the bus disconnected and
\* process.exit(0) called, in the turn of the event loop that called
\* publishAvailability('offline'): the publish has not completed, and a
\* processApplianceData() call in flight has not finished
ExitOnSignal(cfg, cs) ==
  [exited |-> TRUE,
   offline |-> IF Enabled(cfg) THEN "pending" ELSE "none",
   inFlight |-> \E c \in DOMAIN cs : cs[c].pc = "wait"]

ShouldRegister_Always(rec, ledger) == rec.kind = "ok"

\* registerDevice() gets to createSensors(): the id is not in the ledger, and
\* the record has the info that deviceInfo is built from (without it line 138
\* throws into the catch of line 154)
ShouldRegister(rec, ledger) ==
  /\ TopicIdOf[rec.applianceId] \notin ledger
  /\ rec.kind = "ok"

HasInfo_Optional(rec) == TRUE

\* appliance.info is there to read from: the entry of an appliance whose
\* fetch failed has no info and no state
HasInfo(rec) == rec.kind = "ok"

StatePublished_OnlyWhenLaundry(rec) ==
  rec.kind = "ok" /\ rec.deviceType \in LaundryTypes

\* publishState() gets to its publish: the record has the info that line 483
\* reads (without it the catch of line 491 logs the error)
StatePublished(rec) == HasInfo(rec)

\* publishState(): the message (a connected key of the state, if reported,
\* replaces the flag)
StateMessage(rec) ==
  [topic |-> StateTopic(TopicIdOf[rec.applianceId]),
   timestamp |-> TRUE,
   connected |-> rec.connected,
   state |-> rec.state]

LedgerAfterRegister_Replaces(ledger, applianceId) == {applianceId}

\* registerDevice(): this.deviceRegistrations.set(applianceId, true)
LedgerAfterRegister(ledger, applianceId) == ledger \cup {applianceId}

\* mqtt.publish(topic, payload) is called by a processApplianceData() call
Issue(call, kind, msg) ==
  [call EXCEPT !.phase = kind,
               !.out = Append(@, [i |-> call.i, kind |-> kind, msg |-> msg])]

RECURSIVE ProcessFrom(_, _, _)
\* processApplianceData(): the loop from entry call.i on, up to the next
\* publish it awaits
ProcessFrom(cfg, call, ledger) ==
  IF call.i > Len(call.input)
  THEN [call EXCEPT !.pc = "done", !.phase = "", !.k = 0]
  ELSE LET rec == call.input[call.i]
           next == [call EXCEPT !.i = @ + 1, !.phase = "", !.k = 0]
       IN  IF rec.applianceId = "" THEN ProcessFrom(cfg, next, ledger)
           ELSE IF ShouldRegister(rec, ledger)
           THEN [Issue(call, "disc", SensorsOf[cfg][rec][1])
                   EXCEPT !.k = 1]
           ELSE IF StatePublished(rec)
           THEN [Issue(call, "state", StateMessage(rec)) EXCEPT !.k = 0]
           ELSE ProcessFrom(cfg, next, ledger)

InitHa ==
  /\ ClientParked
  /\ PollParked
  /\ SanParked
  /\ SenParked
  /\ haState = "down"
  /\ haConfig \in HaConfigs
  /\ deviceRegistrations = {}
  /\ calls = [c \in CallIds |-> IdleCall]
  /\ started = 0
  /\ statusPubs = {}
  /\ bridgeDocs = <<>>
  /\ bridgeDevices = 0
  /\ busOk = TRUE
  /\ overlapped = FALSE
  /\ exitLog = NoExit

\* startService() up to the start of the polling: the status message of
\* setupMqttConnection(), then initialize(): availability, the bridge and
\* its first state
Initialize ==
  /\ haState \in {"down", "stopped"}
  /\ haState' = "up"
  /\ statusPubs' =
       {[topic |-> "electrolux2mqtt/status", payload |-> "json"]} \cup
       (IF Enabled(haConfig)
        THEN {[topic |-> haConfig.statusTopic, payload |-> "online"]}
        ELSE {})
  /\ bridgeDocs' = IF Enabled(haConfig) THEN BridgeSensors(haConfig)
                   ELSE <<>>
  /\ exitLog' = NoExit
  /\ bridgeDevices' = 0
  /\ deviceRegistrations' = {}
  /\ calls' = [c \in CallIds |-> IdleCall]
  /\ started' = 0
  /\ busOk' \in BOOLEAN
  /\ overlapped' = FALSE
  /\ UNCHANGED <<clientVars, poll, sanVars, senVars, haConfig>>

\* processApplianceData(data) is called
ProcessApplianceData(c, input) ==
  /\ haState = "up"
  /\ started < MaxCalls
  /\ c = started + 1
  /\ started' = c
  /\ overlapped' = (overlapped \/ \E o \in CallIds : calls[o].pc = "wait")
  /\ calls' = [calls EXCEPT ![c] =
                 IF Enabled(haConfig)
                 THEN ProcessFrom(haConfig,
                                  [IdleCall EXCEPT !.pc = "wait",
                                                   !.input = input, !.i = 1],
                                  deviceRegistrations)
                 ELSE [IdleCall EXCEPT !.pc = "done", !.input = input]]
  /\ UNCHANGED <<clientVars, poll, sanVars, senVars, haState, haConfig,
                 deviceRegistrations, statusPubs, bridgeDocs, bridgeDevices,
                 busOk, exitLog>>

\* the publish a call awaits completes, or fails and is logged (busOk), and
\* the call runs on
Continue(c) ==
  /\ haState = "up"
  /\ calls[c].pc = "wait"
  /\ LET call == calls[c]
         rec == call.input[call.i]
         docs == SensorsOf[haConfig][rec]
         applianceId == TopicIdOf[rec.applianceId]
         next == [call EXCEPT !.i = @ + 1, !.phase = "", !.k = 0]
     IN  IF PublishThrows(call.phase, busOk)
         THEN \* out of createSensors() into the catch of registerDevice(),
              \* or out of publishState() and processApplianceData()
              /\ calls' = [calls EXCEPT ![c] =
                   IF call.phase = "disc" /\ StatePublished(rec)
                   THEN [Issue(call, "state", StateMessage(rec))
                           EXCEPT !.k = 0]
                   ELSE IF call.phase = "disc"
                   THEN ProcessFrom(haConfig, next, deviceRegistrations)
                   ELSE [call EXCEPT !.pc = "done", !.phase = "", !.k = 0]]
              /\ UNCHANGED deviceRegistrations
         ELSE IF call.phase = "disc" /\ call.k < Len(docs)
         THEN /\ calls' = [calls EXCEPT ![c] =
                             [Issue(call, "disc", docs[call.k + 1])
                                EXCEPT !.k = call.k + 1]]
              /\ UNCHANGED deviceRegistrations
         ELSE IF call.phase = "disc"
         THEN /\ deviceRegistrations' =
                   LedgerAfterRegister(deviceRegistrations, applianceId)
              /\ calls' = [calls EXCEPT ![c] =
                   IF StatePublished(rec)
                   THEN [Issue(call, "state", StateMessage(rec))
                           EXCEPT !.k = 0]
                   ELSE ProcessFrom(haConfig, next, deviceRegistrations')]
         ELSE /\ calls' = [calls EXCEPT ![c] =
                             ProcessFrom(haConfig, next, deviceRegistrations)]
              /\ UNCHANGED deviceRegistrations
  /\ UNCHANGED <<clientVars, poll, sanVars, senVars, haState, haConfig, started,
                 statusPubs, bridgeDocs, bridgeDevices, busOk, overlapped, exitLog>>

\* publishBridgeState(), run by the interval of registerBridge()
PublishBridgeState ==
  /\ haState = "up"
  /\ Enabled(haConfig)
  /\ bridgeDevices' = Cardinality(deviceRegistrations)
  /\ UNCHANGED <<clientVars, poll, sanVars, senVars, haState, haConfig,
                 deviceRegistrations, calls, started, statusPubs, bridgeDocs,
                 busOk, overlapped, exitLog>>

\* handleShutdown() on SIGINT or SIGTERM; the process ends, and with it the
\* ledger and the calls in flight
HandleShutdown ==
  /\ haState = "up"
  /\ haState' = "stopped"
  /\ statusPubs' = statusPubs \cup
       (IF Enabled(haConfig)
        THEN {[topic |-> haConfig.statusTopic, payload |-> "offline"]}
        ELSE {})
  /\ exitLog' = ExitOnSignal(haConfig, calls)
  /\ deviceRegistrations' = {}
  /\ calls' = [c \in CallIds |-> IdleCall]
  /\ started' = 0
  /\ bridgeDevices' = 0
  /\ overlapped' = FALSE
  /\ UNCHANGED <<clientVars, poll, sanVars, senVars, haConfig, bridgeDocs, busOk>>

NextHa ==
  \/ Initialize
  \/ \E c \in CallIds, input \in HaInputs : ProcessApplianceData(c, input)
  \/ \E c \in CallIds : Continue(c)
  \/ PublishBridgeState
  \/ HandleShutdown

SpecHa == InitHa /\ [][NextHa]_vars

----------------------------------------------------------------------------
(* What the calls of processApplianceData() have published *)

\* the entries of the inputs of the calls made so far
Entries ==
  UNION {{<<c, i>> : i \in DOMAIN calls[c].input} : c \in CallIds}

RecordOf(e) == calls[e[1]].input[e[2]]

\* the publishes of one kind a call has made for one entry of its input
Published(e, kind) ==
  LET evs == SelectSeq(calls[e[1]].out,
                       LAMBDA ev : ev.i = e[2] /\ ev.kind = kind)
  IN  [n \in DOMAIN evs |-> evs[n].msg]

\* the call has run registerDevice() for the entry to its end
Registered(e) ==
  LET call == calls[e[1]]
  IN  \/ call.pc = "done"
      \/ call.pc = "wait" /\ call.i > e[2]
      \/ call.pc = "wait" /\ call.i = e[2] /\ call.phase = "state"

\* the call has run the body of its loop for the entry to its end
Processed(e) ==
  LET call == calls[e[1]]
  IN  call.pc = "done" \/ (call.pc = "wait" /\ call.i > e[2])

\* e is handled before f: by an earlier call, or earlier in the same call
Before(e, f) == e[1] < f[1] \/ (e[1] = f[1] /\ e[2] < f[2])

SameDevice(e, f) ==
  /\ RecordOf(e).kind = "ok"
  /\ RecordOf(f).kind = "ok"
  /\ TopicIdOf[RecordOf(e).applianceId] = TopicIdOf[RecordOf(f).applianceId]

\* every discovery document published by the calls, one per publish
AllDiscovery ==
  UNION {{<<e, n>> : n \in DOMAIN Published(e, "disc")} : e \in Entries}

\* C11: when the calls of processApplianceData() of an enabled service
\* follow one another, the
\* first call for a sanitized device id publishes every discovery document
\* of the device, each topic once, and every later call for the same id
\* publishes no discovery document.
C11_RegistrationIdempotent ==
  ~overlapped /\ haConfig.enabled =>
    /\ \A e \in Entries :
         RecordOf(e).kind = "ok" /\ Registered(e) =>
           Published(e, "disc") =
             IF \E f \in Entries : SameDevice(f, e) /\ Before(f, e)
             THEN <<>>
             ELSE CreateSensors(haConfig, RecordOf(e))
    /\ \A d1, d2 \in AllDiscovery :
         Published(d1[1], "disc")[d1[2]].topic
           = Published(d2[1], "disc")[d2[2]].topic => d1 = d2

\* two calls in a row for the fridge: the first has published its documents,
\* the second none
C11_Witness ==
  /\ ~overlapped
  /\ calls[1].pc = "done" /\ calls[2].pc = "done"
  /\ RecordOf(<<1, 1>>) = Fridge /\ RecordOf(<<2, 1>>) = Fridge
  /\ Len(Published(<<1, 1>>, "disc")) = 3
  /\ Published(<<2, 1>>, "disc") = <<>>

\* C12: of two registerDevice() runs in flight at the same time for the same
\* sanitized id, one at most publishes discovery documents.
C12_AtomicCheckAndSet ==
  \A e, f \in Entries :
    SameDevice(e, f) /\ e # f =>
      Published(e, "disc") = <<>> \/ Published(f, "disc") = <<>>

\* C13: a call of processApplianceData() of an enabled service (C26 is the
\* disabled one) makes, for every successful record
\* of its input, one publish of the state message of the record, whatever
\* registerDevice() did for it.
C13_StateAlwaysPublished ==
  \A e \in Entries :
    RecordOf(e).kind = "ok" /\ haConfig.enabled =>
      /\ Len(Published(e, "state")) <= 1
      /\ Processed(e) =>
            Published(e, "state") = <<StateMessage(RecordOf(e))>>

\* a call has published the state of a device it registered and of a device
\* registered before, over a bus that fails every publish
C13_Witness ==
  /\ ~busOk
  /\ calls[2].pc = "done"
  /\ calls[2].input = <<Fridge, Oven>>
  /\ Published(<<2, 1>>, "disc") = <<>>
  /\ Published(<<2, 2>>, "disc") # <<>>
  /\ Len(Published(<<2, 1>>, "state")) = 1
  /\ Len(Published(<<2, 2>>, "state")) = 1

\* s is the start of t
IsPrefix(s, t) == Len(s) <= Len(t) /\ s = SubSeq(t, 1, Len(s))

SharedAvailability(doc) ==
  /\ doc.availability_topic = haConfig.statusTopic
  /\ doc.payload_available = "online"
  /\ doc.payload_not_available = "offline"

\* C19: every discovery document published, of an appliance or of the
\* bridge, names the configured status topic as availability topic with
\* payloads online and offline, and the bridge publishes its online and
\* offline availability on that topic.
C19_SharedAvailability ==
  /\ \A d \in AllDiscovery :
       SharedAvailability(Published(d[1], "disc")[d[2]])
  /\ \A n \in DOMAIN bridgeDocs : SharedAvailability(bridgeDocs[n])
  /\ \A p \in statusPubs :
       p.payload \in {"online", "offline"} => p.topic = haConfig.statusTopic
  /\ haState = "up" /\ haConfig.enabled =>
       [topic |-> haConfig.statusTopic, payload |-> "online"] \in statusPubs
  /\ haState = "stopped" /\ haConfig.enabled =>
       [topic |-> haConfig.statusTopic, payload |-> "offline"] \in statusPubs

\* a bridge with a configured node id has published its own documents and
\* those of both appliances
C19_Witness ==
  /\ haState = "up"
  /\ haConfig.nodeId # DefaultNodeId
  /\ Len(bridgeDocs) = 3
  /\ calls[1].pc = "done"
  /\ Len(Published(<<1, 1>>, "disc")) = 3
  /\ Len(Published(<<1, 2>>, "disc")) = 3

\* C20: while the process runs, no step takes an id out of the ledger, and
\* the number of devices of the bridge state does not go down.
C20_LedgerAppendOnly ==
  [][haState = "up" /\ haState' = "up" =>
       /\ deviceRegistrations \subseteq deviceRegistrations'
       /\ bridgeDevices' >= bridgeDevices]_vars

\* both appliances are in the ledger and the bridge state has reported two
C20_Witness ==
  /\ haState = "up"
  /\ Cardinality(deviceRegistrations) = 2
  /\ bridgeDevices = 2

\* C21: when the process has exited on a signal, the publish of the offline
\* availability had completed and no processApplianceData() call was in
\* flight: exit and disconnect come after both.
C21_ExitAfterOffline ==
  exitLog.exited =>
    /\ haConfig.enabled => exitLog.offline = "done"
    /\ ~exitLog.inFlight

\* C25: over a bus that fails every publish, a finished call of
\* processApplianceData() has still attempted, for every successful record
\* of its input, the state message and, when it registered the device, every
\* discovery document of it; and it has attempted no publish of an entry
\* twice.
C25_PublishFailureContained ==
  ~busOk /\ haConfig.enabled =>
    \A c \in CallIds :
      calls[c].pc = "done" =>
        /\ \A i \in DOMAIN calls[c].input :
             LET rec == calls[c].input[i] IN
             rec.kind = "ok" =>
               /\ Published(<<c, i>>, "state") = <<StateMessage(rec)>>
               /\ Published(<<c, i>>, "disc")
                    \in {<<>>, CreateSensors(haConfig, rec)}
        /\ \A m, n \in DOMAIN calls[c].out :
             (/\ calls[c].out[m].i = calls[c].out[n].i
              /\ calls[c].out[m].msg.topic = calls[c].out[n].msg.topic) =>
               m = n

\* every publish failed, and the call went through both appliances: three
\* documents and a state message each
C25_Witness ==
  /\ ~busOk
  /\ calls[1].pc = "done"
  /\ calls[1].input = <<Fridge, Oven>>
  /\ Len(calls[1].out) = 8

\* C26: a disabled service publishes no discovery document, no state
\* message and no availability message, whatever it is given to process; an
\* enabled one publishes every discovery document retained.
C26_DiscoveryGated ==
  /\ ~haConfig.enabled =>
       /\ \A c \in DOMAIN calls : calls[c].out = <<>>
       /\ bridgeDocs = <<>>
       /\ \A p \in statusPubs : p.payload \notin {"online", "offline"}
  /\ haConfig.enabled =>
       /\ \A d \in AllDiscovery : Published(d[1], "disc")[d[2]].retain
       /\ \A n \in DOMAIN bridgeDocs : bridgeDocs[n].retain

\* a disabled service was given both appliances to process, twice
C26_Witness ==
  /\ ~haConfig.enabled
  /\ haState = "up"
  /\ calls[1].pc = "done" /\ calls[1].input = <<Fridge, Oven>>
  /\ calls[2].pc = "done" /\ calls[2].input = <<Fridge, Oven>>

\* call c gets past the ledger check of registerDevice() in this step: it
\* issues the first discovery document of an entry
StartsRegistration(c) ==
  /\ calls'[c] # calls[c]
  /\ calls'[c].phase = "disc" /\ calls'[c].k = 1

(* C31: once the sanitized id of a device is in the ledger, no             *)
(* registerDevice() call for that id gets past the ledger check, whatever  *)
(* the record holds by then; a call made for a record that has gained a    *)
(* capability after its device was registered publishes no discovery       *)
(* document, so the sensor of the new capability is never announced.       *)
C31_SnapshotStep ==
  \A c \in CallIds :
    StartsRegistration(c) =>
      LET call == calls'[c] IN
        TopicIdOf[call.input[call.i].applianceId] \notin deviceRegistrations'

C31_RegistrationIsSnapshot ==
  /\ [][C31_SnapshotStep]_vars
  /\ [](\A e, f \in Entries :
         (/\ Before(e, f) /\ SameDevice(e, f)
          /\ calls[e[1]].pc = "done" /\ calls[f[1]].pc = "done"
          /\ ~overlapped /\ haConfig.enabled) =>
           /\ Published(f, "disc") = <<>>
           /\ Len(Published(f, "state")) = 1)

\* the oven was registered from its first record; the later call brought the
\* record with the new key, whose document set is a different one, and
\* published its state only
C31_Witness ==
  /\ haConfig.enabled
  /\ calls[1].pc = "done" /\ calls[1].input = <<Oven>>
  /\ calls[2].pc = "done" /\ calls[2].input = <<OvenGrown>>
  /\ Len(SensorsOf[haConfig][OvenGrown]) > Len(SensorsOf[haConfig][Oven])
  /\ Len(calls[1].out) = Len(SensorsOf[haConfig][Oven]) + 1
  /\ Len(calls[2].out) = 1
  /\ calls[2].out[1].kind = "state"

\* the discovery documents a call has issued for an entry reached the bus
Delivered(e) == busOk /\ Published(e, "disc") # <<>>

(* C35: a device is in the registration ledger only if its discovery       *)
(* documents have been published: every sanitized id in the ledger is the  *)
(* id of an entry whose discovery documents reached the bus.               *)
C35_RegisteredOnlyIfPublished ==
  \A id \in deviceRegistrations :
    \E e \in Entries :
      /\ RecordOf(e).kind = "ok"
      /\ TopicIdOf[RecordOf(e).applianceId] = id
      /\ Delivered(e)

\* the raw ids of the appliances the finished calls were given
RawIds ==
  {RecordOf(e).applianceId :
     e \in {x \in Entries : RecordOf(x).kind = "ok" /\ calls[x[1]].pc = "done"}}

\* the topics of the publishes of one kind made for the appliance with a raw id
TopicsFor(raw, kind) ==
  UNION {{Published(e, kind)[n].topic : n \in DOMAIN Published(e, kind)} :
           e \in {x \in Entries : RecordOf(x).applianceId = raw}}

(* C37: two appliances with different raw ids that processApplianceData()  *)
(* has processed each have discovery documents of their own and a state    *)
(* topic of their own: no state topic and no discovery topic is used for   *)
(* both, and neither is left without discovery documents.                  *)
C37_DistinctDevicesDistinct ==
  haConfig.enabled =>
    \A a, b \in RawIds :
      a # b =>
        /\ TopicsFor(a, "state") \cap TopicsFor(b, "state") = {}
        /\ TopicsFor(a, "disc") \cap TopicsFor(b, "disc") = {}
        /\ TopicsFor(a, "disc") # {} /\ TopicsFor(b, "disc") # {}

\* the entries of appliances whose fetch failed
Degraded == {e \in Entries : RecordOf(e).kind = "error"}

(* C39: the entry of an appliance whose fetch failed never aborts          *)
(* processApplianceData(): nothing is published for it, its id does not    *)
(* get into the ledger on its account, and the call goes on to publish the *)
(* state of every successful record of its input, those after the failed   *)
(* entry included.                                                         *)
C39_DegradedEntryContained ==
  haConfig.enabled =>
    /\ \A e \in Degraded :
         /\ Published(e, "disc") = <<>>
         /\ Published(e, "state") = <<>>
         /\ (\A f \in Entries :
               (/\ RecordOf(f).applianceId # ""
                /\ TopicIdOf[RecordOf(f).applianceId]
                     = TopicIdOf[RecordOf(e).applianceId]) => f \in Degraded) =>
              TopicIdOf[RecordOf(e).applianceId] \notin deviceRegistrations
    /\ \A e \in Degraded, f \in Entries :
         (/\ f[1] = e[1] /\ calls[e[1]].pc = "done"
          /\ RecordOf(f).kind = "ok") =>
           /\ Published(f, "state") = <<StateMessage(RecordOf(f))>>
           /\ TopicIdOf[RecordOf(f).applianceId] \in deviceRegistrations

\* a call has gone through the failed oven and then the two fridges: the
\* documents and the state of the first fridge, the state of the second,
\* nothing for the oven
C39_Witness ==
  /\ haConfig.enabled
  /\ calls[1].pc = "done"
  /\ calls[1].input = <<OvenFailed, Fridge, FridgeTwin>>
  /\ calls[2].pc = "idle"
  /\ deviceRegistrations = {"fridge_1"}
  /\ Len(calls[1].out) = Len(SensorsOf[haConfig][Fridge]) + 2
  /\ \A n \in DOMAIN calls[1].out : calls[1].out[n].i \in {2, 3}

\* call c issues the state message of the entry it is at in this step
IssuesState(c) ==
  /\ calls'[c] # calls[c]
  /\ calls'[c].phase = "state"
  /\ Len(calls'[c].out) = Len(calls[c].out) + 1

\* every discovery document of the appliance of rec has been issued, the
\* Connection document first, and each names the state topic of rec
Announced(rec) ==
  \E e \in Entries :
    /\ RecordOf(e).kind = "ok"
    /\ RecordOf(e).applianceId = rec.applianceId
    /\ Published(e, "disc") = SensorsOf[haConfig][RecordOf(e)]
    /\ Published(e, "disc")[1].name = "Connection"
    /\ \A n \in DOMAIN Published(e, "disc") :
         Published(e, "disc")[n].state_topic = StateMessage(rec).topic

(* C40: a state message of an appliance is published only after all the    *)
(* discovery documents of the first registration of that appliance have    *)
(* been issued, the Connection document first, each with the topic of the  *)
(* state message as its state_topic.                                       *)
C40_StateStep ==
  \A c \in CallIds :
    IssuesState(c) =>
      Announced(calls'[c].input[calls'[c].i])

C40_DiscoveryBeforeState == [][C40_StateStep]_vars

----------------------------------------------------------------------------
(***************************************************************************)
(* The polling orchestrator: start(), the interval timer, stop()           *)
(***************************************************************************)

CycleMayStart_Always(p) == TRUE

\* overlap policy: no cycle starts while a fetch+publish is outstanding
CycleMayStart(p) == p.fetching + p.publishing = 0

\* one attempt to run a cycle: it starts, or it is skipped and logged
RunCycle(p) ==
  IF CycleMayStart(p)
  THEN [p EXCEPT !.fetching = @ + 1, !.started = @ + 1]
  ELSE [p EXCEPT !.skipped = @ + 1]

InitPolling ==
  /\ ClientParked
  /\ SanParked
  /\ SenParked
  /\ HaParked
  /\ poll = PollIdle

\* start(): a no-op when running; else one cycle at once and the timer
PollingStart ==
  /\ poll.calls < MaxPollCalls
  /\ poll' = IF poll.running
             THEN [poll EXCEPT !.calls = @ + 1]
             ELSE RunCycle([poll EXCEPT !.calls = @ + 1, !.running = TRUE])
  /\ UNCHANGED <<clientVars, sanVars, senVars, haVars>>

\* the interval timer fires
TimerTick ==
  /\ poll.running
  /\ poll.ticks < MaxPollTicks
  /\ poll' = RunCycle([poll EXCEPT !.ticks = @ + 1])
  /\ UNCHANGED <<clientVars, sanVars, senVars, haVars>>

\* fetchData() of a cycle in flight has settled: its publishes begin
CycleFetched ==
  /\ poll.fetching > 0
  /\ poll' = [poll EXCEPT !.fetching = @ - 1, !.publishing = @ + 1]
  /\ UNCHANGED <<clientVars, sanVars, senVars, haVars>>

\* the publishes of a cycle in flight are done: the cycle is over
CyclePublished ==
  /\ poll.publishing > 0
  /\ poll' = [poll EXCEPT !.publishing = @ - 1]
  /\ UNCHANGED <<clientVars, sanVars, senVars, haVars>>

\* stop(): clears the timer; a cycle in flight goes on
PollingStop ==
  /\ poll.calls < MaxPollCalls
  /\ poll' = [poll EXCEPT !.calls = @ + 1, !.running = FALSE]
  /\ UNCHANGED <<clientVars, sanVars, senVars, haVars>>

NextPolling ==
  \/ PollingStart
  \/ TimerTick
  \/ CycleFetched
  \/ CyclePublished
  \/ PollingStop

SpecPolling == InitPolling /\ [][NextPolling]_vars

\* fetch+publish cycles outstanding
Outstanding(p) == p.fetching + p.publishing

C22_TickStep ==
  /\ (poll'.ticks # poll.ticks /\ Outstanding(poll) > 0) =>
        /\ poll'.started = poll.started
        /\ poll'.fetching = poll.fetching
        /\ poll'.publishing = poll.publishing
  /\ poll'.started # poll.started =>
        /\ Outstanding(poll) = 0
        /\ poll'.ticks # poll.ticks \/ poll'.calls # poll.calls

(* C22: at no time are two fetch+publish cycles outstanding together; a   *)
(* timer tick that fires while a cycle is outstanding starts no cycle, and *)
(* no cycle starts later on its account: a cycle starts only in the step   *)
(* of a tick or of start(), and only when none is outstanding.             *)
C22_CyclesNeverOverlap ==
  /\ [](Outstanding(poll) <= 1)
  /\ [][C22_TickStep]_vars

\* a tick was skipped while a cycle was outstanding, that cycle is over and
\* a later tick has started the next one
C22_Witness ==
  /\ poll.skipped > 0
  /\ poll.started = 2
  /\ poll.ticks = 3
  /\ Outstanding(poll) = 1

====
